---- MODULE Spec2Model ----
(***************************************************************************)
(* A model of composify_core: the rule registry (type-hierarchy index,     *)
(* per-identity binary heaps of rules, specificity-aware lookup) and the   *)
(* recursive, memoized solver.  Data follows the Rust structures; every    *)
(* comparison the code makes through a hand-written PartialEq/Hash is made *)
(* here through the matching operator, never through record equality.     *)
(***************************************************************************)
EXTENDS Integers, Sequences, FiniteSets, TLC

(***************************************************************************)
(* Option<T>                                                               *)
(***************************************************************************)
None == [some |-> FALSE]

Some(v) == [some |-> TRUE, val |-> v]

(***************************************************************************)
(* Generic sequence helpers                                                *)
(***************************************************************************)
Range(s) == {s[i] : i \in DOMAIN s}

RECURSIVE Perms(_)
\* Every order in which an unordered collection (a HashSet) may be iterated.
Perms(S) ==
  IF S = {} THEN {<<>>}
  ELSE UNION {{<<x>> \o p : p \in Perms(S \ {x})} : x \in S}

RECURSIVE Flatten(_)
Flatten(ss) == IF ss = <<>> THEN <<>> ELSE Head(ss) \o Flatten(Tail(ss))

RECURSIVE SeqsUpTo(_, _)
\* All sequences over S of length at most n.
SeqsUpTo(S, n) ==
  IF n = 0 THEN {<<>>}
  ELSE LET shorter == SeqsUpTo(S, n - 1)
       IN  shorter \cup {Append(s, x) : s \in {t \in shorter : Len(t) = n - 1}, x \in S}

(***************************************************************************)
(* solve_parameters.rs                                                     *)
(***************************************************************************)
SolveCardinality == {"Exhaustive", "Single", "Exclusive"}

SolveSpecificity == {"Exact", "AllowSubclass", "AllowSuperclass"}

\* impl Default for SolveCardinality / SolveSpecificity, #[derive(Default)]
SolveParameterDefault == [specificity |-> "AllowSubclass", cardinality |-> "Exclusive"]

(***************************************************************************)
(* metadata.rs                                                             *)
(*                                                                         *)
(* An attribute value is a host object: [tag |-> its type, val |-> the     *)
(* value].  Its Python hash is modelled as the pair itself (no collisions).*)
(* DefaultHasher is modelled as the sequence of what was written to it.    *)
(***************************************************************************)
ItemHash(item) == <<item.tag, item.val>>

RECURSIVE MetadataMap(_)
\* The HashMap built by the insert loop of MetadataSet::new: a later item of
\* the same type replaces the earlier one.
MetadataMap(items) ==
  IF items = <<>> THEN <<>>
  ELSE LET n    == Len(items)
           rest == MetadataMap(SubSeq(items, 1, n - 1))
           last == items[n]
       IN  [t \in (DOMAIN rest) \cup {last.tag} |->
              IF t = last.tag THEN last.val ELSE rest[t]]

\* MetadataSet::new: the map, and the hash of every item given, in order.
MetadataSetNew(items) ==
  [map  |-> MetadataMap(items),
   hash |-> [i \in 1..Len(items) |-> ItemHash(items[i])]]

\* impl PartialEq for MetadataSet
MetadataSetEq(a, b) == a.hash = b.hash

\* Mutant: the subset test that also compares the values.
issubsetByValue(self, metadata) ==
  \A k \in DOMAIN self.map : k \in DOMAIN metadata.map /\ metadata.map[k] = self.map[k]

\* Mutant: a subset test that accepts one missing tag-type.
issubsetLoose(self, metadata) ==
  Cardinality({k \in DOMAIN self.map : k \notin DOMAIN metadata.map}) <= 1

\* MetadataSet::issubset
issubset(self, metadata) ==
  \A k \in DOMAIN self.map : k \in DOMAIN metadata.map

\* A qualifier is a host predicate over a MetadataSet.  The predicates
\* modelled are "the set holds value val for tag-type tag".
QualifierCall(q, attrs) == q.tag \in DOMAIN attrs.map /\ attrs.map[q.tag] = q.val

\* Qualifiers::__new__
QualifiersNew(items) ==
  [qualifiers |-> items,
   hash       |-> [i \in 1..Len(items) |-> <<"q", items[i].tag, items[i].val>>]]

\* impl PartialEq for Qualifiers
QualifiersEq(a, b) == a.hash = b.hash

\* Qualifiers::qualify: every predicate holds.
qualify(self, attrs) ==
  \A i \in DOMAIN self.qualifiers : QualifierCall(self.qualifiers[i], attrs)

(***************************************************************************)
(* type_info.rs                                                            *)
(*                                                                         *)
(* A metadata element is one of                                            *)
(*   [kind |-> "attribute", tag, val]   [kind |-> "qualifier", tag, val]   *)
(*   [kind |-> "cardinality", v]        [kind |-> "specificity", v]        *)
(***************************************************************************)
SelectKind(metadata, k) == SelectSeq(metadata, LAMBDA e : e.kind = k)

\* The last override of its kind wins; without one, the default.
LastOr(s, default) == IF s = <<>> THEN default ELSE s[Len(s)].v

\* parse_metadata
parse_metadata(metadata) ==
  [attributes |-> MetadataSetNew(SelectKind(metadata, "attribute")),
   qualifiers |-> QualifiersNew(SelectKind(metadata, "qualifier")),
   solve_parameter |->
     [specificity |-> LastOr(SelectKind(metadata, "specificity"),
                             SolveParameterDefault.specificity),
      cardinality |-> LastOr(SelectKind(metadata, "cardinality"),
                             SolveParameterDefault.cardinality)]]

\* TypeInfo::__new__ (type_hash is the identity of the host type)
TypeInfoNew(type, metadata) ==
  LET p == parse_metadata(metadata)
  IN  [type_hash       |-> type,
       attributes      |-> p.attributes,
       qualifiers      |-> p.qualifiers,
       solve_parameter |-> p.solve_parameter]

\* Mutant: an equality that also compares the solve parameters.
TypeInfoEqStrict(a, b) ==
  /\ a.type_hash = b.type_hash
  /\ MetadataSetEq(a.attributes, b.attributes)
  /\ QualifiersEq(a.qualifiers, b.qualifiers)
  /\ a.solve_parameter = b.solve_parameter

\* impl PartialEq for TypeInfo: the solve parameters take no part.
TypeInfoEq(a, b) ==
  /\ a.type_hash = b.type_hash
  /\ MetadataSetEq(a.attributes, b.attributes)
  /\ QualifiersEq(a.qualifiers, b.qualifiers)

(***************************************************************************)
(* rules.rs                                                                *)
(*                                                                         *)
(* Names are strings; String's Ord is modelled by the position of the name *)
(* in NameOrder, which lists the names used in their byte order.           *)
(***************************************************************************)
NameOrder == <<"__root__", "a", "b", "c">>

NameIndex(n) == CHOOSE i \in DOMAIN NameOrder : NameOrder[i] = n

NameLe(x, y) == NameIndex(x) <= NameIndex(y)

RECURSIVE SortByName(_)
\* A stable sort by name (Vec::sort_by / Vec::sort with a by-name Ord):
\* elements with equal names keep their order.
SortByName(s) ==
  IF s = <<>> THEN <<>>
  ELSE LET n      == Len(s)
           sorted == SortByName(SubSeq(s, 1, n - 1))
           x      == s[n]
           keep   == {i \in DOMAIN sorted : NameLe(sorted[i].name, x.name)}
           k      == Cardinality(keep)
       IN  SubSeq(sorted, 1, k) \o <<x>> \o SubSeq(sorted, k + 1, Len(sorted))

\* Dependency::new
Dependency(name, typing) == [name |-> name, typing |-> typing]

\* Mutant: the dependencies kept in the order given.
DependenciesNewUnsorted(parameters) == parameters

\* Dependencies::new: the (name, type) items of the mapping, sorted by name.
DependenciesNew(parameters) == SortByName(parameters)

\* Rule::new.  function stands for the opaque provider handle.
RuleNew(canonical_name, output_type, parameters, priority) ==
  [function       |-> canonical_name,
   canonical_name |-> canonical_name,
   output_type    |-> output_type,
   dependencies   |-> DependenciesNew(parameters),
   priority       |-> priority,
   is_async       |-> FALSE,
   is_optional    |-> FALSE]

\* impl PartialEq for Dependencies / Dependency
DependenciesEq(a, b) ==
  /\ Len(a) = Len(b)
  /\ \A i \in DOMAIN a : a[i].name = b[i].name /\ TypeInfoEq(a[i].typing, b[i].typing)

\* impl PartialEq for Rule
RuleEq(a, b) ==
  /\ a.function = b.function
  /\ a.canonical_name = b.canonical_name
  /\ TypeInfoEq(a.output_type, b.output_type)
  /\ DependenciesEq(a.dependencies, b.dependencies)
  /\ a.priority = b.priority
  /\ a.is_async = b.is_async
  /\ a.is_optional = b.is_optional

\* impl Ord for Rule: by priority alone.
RuleLe(a, b) == a.priority <= b.priority

(***************************************************************************)
(* registry.rs                                                             *)
(***************************************************************************)
\* HashMap helpers: a map is a function whose domain is the set of its keys.
EmptyMap == <<>>

MapPut(m, k, v) == [x \in (DOMAIN m) \cup {k} |-> IF x = k THEN v ELSE m[x]]

MapGet(m, k) == IF k \in DOMAIN m THEN Some(m[k]) ELSE None

\* The host's method resolution order of a type: the type itself first, the
\* builtin object last.  Leaf derives from Mid, Mid from Base.
Mro(type) ==
  CASE type = "Leaf"   -> <<"Leaf", "Mid", "Base", "object">>
    [] type = "Mid"    -> <<"Mid", "Base", "object">>
    [] type = "object" -> <<"object">>
    [] OTHER           -> <<type, "object">>

\* resolve_bases
resolve_bases(typing) == Mro(typing)

\* TypeRegistry::add_subclass
add_subclass(self, superclass, subclass) ==
  [self EXCEPT !.subclasses =
     MapPut(self.subclasses, superclass,
            IF superclass \in DOMAIN self.subclasses
            THEN self.subclasses[superclass] \cup {subclass}
            ELSE {subclass})]

RECURSIVE AddSubclasses(_, _, _)
\* The loop of TypeRegistry::add over the bases.
AddSubclasses(self, bases, type_hash) ==
  IF bases = <<>> THEN self
  ELSE AddSubclasses(add_subclass(self, Head(bases), type_hash), Tail(bases), type_hash)

\* Mutant: an index that links a type only to itself, not to its bases.
TypeRegistryAddSelfOnly(self, typing) ==
  LET linked == add_subclass(self, typing, typing)
  IN  [linked EXCEPT !.superclasses = MapPut(linked.superclasses, typing, <<typing>>)]

\* TypeRegistry::add
TypeRegistryAdd(self, typing) ==
  LET bases  == resolve_bases(typing)
      linked == AddSubclasses(self, bases, typing)
  IN  [linked EXCEPT !.superclasses = MapPut(linked.superclasses, typing, bases)]

\* TypeRegistry::get_superclasses
get_superclasses(self, key) == MapGet(self.superclasses, key)

\* Mutant: descendants only of a type that was registered itself.
get_subclasses_registered(self, key) ==
  IF key \in DOMAIN self.superclasses THEN MapGet(self.subclasses, key) ELSE None

\* TypeRegistry::get_subclasses
get_subclasses(self, key) == MapGet(self.subclasses, key)

\* Exchange the elements at (1-based) positions i and j.
Swap(data, i, j) ==
  [k \in DOMAIN data |-> IF k = i THEN data[j] ELSE IF k = j THEN data[i] ELSE data[k]]

RECURSIVE sift_up(_, _)
\* BinaryHeap::sift_up, pos counted from 0 as in the array of the heap.
sift_up(data, pos) ==
  IF pos = 0 THEN data
  ELSE LET parent == (pos - 1) \div 2
       IN  IF RuleLe(data[pos + 1], data[parent + 1]) THEN data
           ELSE sift_up(Swap(data, pos + 1, parent + 1), parent)

\* Mutant: a push that appends without restoring the heap order.
BinaryHeapPushNoSift(data, rule) == Append(data, rule)

\* BinaryHeap::push
BinaryHeapPush(data, rule) == sift_up(Append(data, rule), Len(data))

RECURSIVE sift_down(_, _)
\* BinaryHeap::sift_down_range to the end of the array, pos counted from 0.
sift_down(data, pos) ==
  LET end   == Len(data)
      child == 2 * pos + 1
  IN  IF child + 1 < end
      THEN LET c == IF RuleLe(data[child + 1], data[child + 2]) THEN child + 1 ELSE child
           IN  IF RuleLe(data[c + 1], data[pos + 1]) THEN data
               ELSE sift_down(Swap(data, pos + 1, c + 1), c)
      ELSE IF child = end - 1 /\ ~RuleLe(data[child + 1], data[pos + 1])
           THEN Swap(data, pos + 1, child + 1)
           ELSE data

RECURSIVE RebuildFrom(_, _)
RebuildFrom(data, n) ==
  IF n = 0 THEN data ELSE RebuildFrom(sift_down(data, n - 1), n - 1)

\* BinaryHeap::from_iter (collect): the elements in the order given, heapified.
BinaryHeapFromIter(elements) == RebuildFrom(elements, Len(elements) \div 2)

\* The registry before any registration (#[derive(Default)]).
RuleRegistryDefault ==
  [rules |-> EmptyMap,
   types |-> [subclasses |-> EmptyMap, superclasses |-> EmptyMap]]

\* RuleRegistry::add
RuleRegistryAdd(self, rule) ==
  LET key  == rule.output_type.type_hash
      heap == IF key \in DOMAIN self.rules THEN self.rules[key] ELSE <<>>
  IN  [self EXCEPT !.rules = MapPut(self.rules, key, BinaryHeapPush(heap, rule))]

\* RuleRegistry::add_rule
add_rule(self, rule) ==
  RuleRegistryAdd([self EXCEPT !.types = TypeRegistryAdd(self.types, rule.output_type.type_hash)],
                  rule)

\* Mutant: a lookup that skips the attribute filter.
inner_get_unfiltered(self, key, attributes, qualifiers) ==
  IF key \notin DOMAIN self.rules THEN None ELSE Some(self.rules[key])

\* RuleRegistry::inner_get: the heap's array order, filtered.
inner_get(self, key, attributes, qualifiers) ==
  IF key \notin DOMAIN self.rules THEN None
  ELSE LET elements == self.rules[key]
           rules    == SelectSeq(elements,
                         LAMBDA r : issubset(attributes, r.output_type.attributes))
       IN  IF qualifiers.qualifiers # <<>>
           THEN Some(SelectSeq(rules, LAMBDA e : qualify(qualifiers, e.output_type.attributes)))
           ELSE Some(rules)

RECURSIVE CollectRules(_, _, _)
\* The loop of get_super / get_sub over the keys, in the order visited.
CollectRules(self, keys, type_info) ==
  IF keys = <<>> THEN <<>>
  ELSE LET found == inner_get(self, Head(keys), type_info.attributes, type_info.qualifiers)
       IN  (IF found.some THEN found.val ELSE <<>>)
             \o CollectRules(self, Tail(keys), type_info)

NoneIfEmpty(rules) == IF rules = <<>> THEN None ELSE Some(rules)

\* RuleRegistry::get_super.  The result is the set of the values the call
\* can return (one: the chain is a Vec).
get_super(self, type_info) ==
  LET keys == get_superclasses(self.types, type_info.type_hash)
  IN  IF keys.some THEN {NoneIfEmpty(CollectRules(self, keys.val, type_info))}
      ELSE {None}

\* RuleRegistry::get_sub.  The keys are a HashSet, iterated in an order the
\* code does not control: one possible value per order.
get_sub(self, type_info) ==
  LET keys == get_subclasses(self.types, type_info.type_hash)
  IN  IF keys.some
      THEN {NoneIfEmpty(CollectRules(self, order, type_info)) : order \in Perms(keys.val)}
      ELSE {None}

\* RuleRegistry::get_exact
get_exact(self, type_info) ==
  {inner_get(self, type_info.type_hash, type_info.attributes, type_info.qualifiers)}

\* Mutant: a lookup that ignores the specificity and always widens to subclasses.
get_always_sub(self, type_info) == get_sub(self, type_info)

\* RuleRegistry::get: the values the lookup can return for type_info.
get(self, type_info) ==
  CASE type_info.solve_parameter.specificity = "Exact"           -> get_exact(self, type_info)
    [] type_info.solve_parameter.specificity = "AllowSubclass"   -> get_sub(self, type_info)
    [] type_info.solve_parameter.specificity = "AllowSuperclass" -> get_super(self, type_info)

\* RuleRegistry::clone_ref: every heap is collected anew from its elements.
RuleRegistryCloneRef(self) ==
  [rules |-> [k \in DOMAIN self.rules |-> BinaryHeapFromIter(self.rules[k])],
   types |-> self.types]

(***************************************************************************)
(* solutions.rs                                                            *)
(*                                                                         *)
(* A hash value is modelled as the structure that was fed to the hasher,   *)
(* so two hashes are equal exactly when the hashed contents are.  The hash *)
(* 0 of an empty argument collection is the empty tuple.                   *)
(***************************************************************************)
TypeInfoHash(t) == <<t.type_hash, t.attributes.hash, t.qualifiers.hash>>

RuleHash(r) ==
  <<r.function, r.canonical_name, r.priority, r.is_async, r.is_optional,
    TypeInfoHash(r.output_type),
    [i \in DOMAIN r.dependencies |->
       <<r.dependencies[i].name, TypeInfoHash(r.dependencies[i].typing)>>]>>

\* impl Hash for Solution
SolutionHash(s) == <<RuleHash(s.rule), s.args.hash>>

\* #[derive(Hash)] on SolutionArg, over a Vec of them
ArgsHash(args) == [i \in DOMAIN args |-> <<args[i].name, SolutionHash(args[i].solution)>>]

SolutionArg(name, solution) == [name |-> name, solution |-> solution]

\* SolutionArgsCollection::default
SolutionArgsCollectionDefault == [args |-> <<>>, hash |-> <<>>]

\* SolutionArgsCollection::new: sorted by name, the hash taken once, here.
SolutionArgsCollectionNew(args) ==
  LET sorted == SortByName(args)
  IN  [args |-> sorted, hash |-> IF sorted = <<>> THEN <<>> ELSE ArgsHash(sorted)]

\* impl PartialEq for SolutionArgsCollection: by the stored hash.
SolutionArgsCollectionEq(a, b) == a.hash = b.hash

Solution(rule, args) == [rule |-> rule, args |-> args]

\* impl PartialEq for Solution
SolutionEq(a, b) == RuleEq(a.rule, b.rule) /\ SolutionArgsCollectionEq(a.args, b.args)

(***************************************************************************)
(* solver.rs                                                               *)
(***************************************************************************)
\* The depth the execution stack may reach before push_stack refuses.
DepthLimit == 5

ExecutionStep(name, target) == [name |-> name, target |-> target]

SolutionArgCandidate(name, solutions) == [name |-> name, solutions |-> solutions]

\* SolvingErrorReason
CyclicDependency == [kind |-> "CyclicDependency", solutions |-> <<>>]

NoSolution == [kind |-> "NoSolution", solutions |-> <<>>]

NotExclusive(solutions) == [kind |-> "NotExclusive", solutions |-> solutions]

\* SolutionsMemo: a HashMap keyed through TypeInfo's own equality, held as
\* the set of its (key, value) entries.
MemoEntry(memo, t) == CHOOSE e \in memo : TypeInfoEq(e.key, t)

\* Mutant: a read that narrows the stored sequence to one Solution for a
\* target requested as Single.
read_memo_narrowing(memo, t) ==
  IF \E e \in memo : TypeInfoEq(e.key, t)
  THEN Some(IF t.solve_parameter.cardinality = "Single"
            THEN <<MemoEntry(memo, t).val[1]>>
            ELSE MemoEntry(memo, t).val)
  ELSE None

\* SolutionsMemo::read_memo
read_memo(memo, t) ==
  IF \E e \in memo : TypeInfoEq(e.key, t) THEN Some(MemoEntry(memo, t).val) ELSE None

\* Mutant: a save that extends the sequence already stored for the key.
save_memo_extend(memo, t, solutions) ==
  IF \E e \in memo : TypeInfoEq(e.key, t)
  THEN (memo \ {MemoEntry(memo, t)})
         \cup {[key |-> MemoEntry(memo, t).key, val |-> MemoEntry(memo, t).val \o solutions]}
  ELSE memo \cup {[key |-> t, val |-> solutions]}

\* Mutant: a save that stores an empty sequence under the key.
save_memo_empty(memo, t, solutions) ==
  IF \E e \in memo : TypeInfoEq(e.key, t)
  THEN (memo \ {MemoEntry(memo, t)}) \cup {[key |-> MemoEntry(memo, t).key, val |-> <<>>]}
  ELSE memo \cup {[key |-> t, val |-> <<>>]}

\* Mutant: a save that stores nothing.
save_memo_nothing(memo, t, solutions) == memo

\* SolutionsMemo::save_memo: HashMap::insert keeps the key already present
\* and replaces its value.
save_memo(memo, t, solutions) ==
  IF \E e \in memo : TypeInfoEq(e.key, t)
  THEN (memo \ {MemoEntry(memo, t)}) \cup {[key |-> MemoEntry(memo, t).key, val |-> solutions]}
  ELSE memo \cup {[key |-> t, val |-> solutions]}

RECURSIVE Extend(_, _, _)
\* The nested loops of permutate_candidates for one further candidate: every
\* collection so far, extended by every solution of the candidate.  The
\* argument is pushed onto the collection; its hash stays as it was.
Extend(collections, name, solutions) ==
  IF collections = <<>> THEN <<>>
  ELSE [i \in DOMAIN solutions |->
          [Head(collections) EXCEPT
             !.args = Append(@, SolutionArg(name, solutions[i]))]]
       \o Extend(Tail(collections), name, solutions)

RECURSIVE ExtendAll(_, _)
ExtendAll(collections, candidates) ==
  IF candidates = <<>> THEN collections
  ELSE ExtendAll(Extend(collections, Head(candidates).name, Head(candidates).solutions),
                 Tail(candidates))

\* Mutant: an expansion that pairs the candidates position by position
\* instead of taking their product.
permutate_candidates_zip(candidates) ==
  IF candidates = <<>> THEN [ok |-> FALSE, err |-> NoSolution]
  ELSE LET n == CHOOSE m \in 0..100 :
                  /\ \A i \in DOMAIN candidates : m <= Len(candidates[i].solutions)
                  /\ \E i \in DOMAIN candidates : m = Len(candidates[i].solutions)
       IN  [ok |-> TRUE,
            val |-> [k \in 1..n |->
                       SolutionArgsCollectionNew(
                         [i \in DOMAIN candidates |->
                            SolutionArg(candidates[i].name, candidates[i].solutions[k])])]]

\* permutate_candidates
permutate_candidates(candidates) ==
  IF candidates = <<>> THEN [ok |-> FALSE, err |-> NoSolution]
  ELSE LET c     == Head(candidates)
           first == [i \in DOMAIN c.solutions |->
                       SolutionArgsCollectionNew(<<SolutionArg(c.name, c.solutions[i])>>)]
       IN  [ok |-> TRUE, val |-> ExtendAll(first, Tail(candidates))]

\* Mutant: a guard that checks for a cycle before it checks the depth.
push_stack_cycle_first(stack, name, target) ==
  IF \E i \in DOMAIN stack : TypeInfoEq(stack[i].target, target) THEN "cyclic"
  ELSE IF Len(stack) > DepthLimit THEN "depth"
  ELSE "pushed"

\* Mutant: a guard without the cycle check.
push_stack_no_cycle(stack, name, target) ==
  IF Len(stack) > DepthLimit THEN "depth" ELSE "pushed"

\* Mutant: a guard without the depth check.
push_stack_no_depth(stack, name, target) ==
  IF \E i \in DOMAIN stack : TypeInfoEq(stack[i].target, target) THEN "cyclic" ELSE "pushed"

\* _Solver::push_stack: which of its three exits is taken.
push_stack(stack, name, target) ==
  IF Len(stack) > DepthLimit THEN "depth"
  ELSE IF \E i \in DOMAIN stack : TypeInfoEq(stack[i].target, target) THEN "cyclic"
  ELSE "pushed"

\* Mutant: Single keeps the last solution.
ApplyCardinalityLast(cardinality, solutions) ==
  IF cardinality = "Single" THEN <<solutions[Len(solutions)]>> ELSE solutions

\* The match on the cardinality in solve_for, for a non-empty aggregate that
\* the Exclusive policy lets through.
ApplyCardinality(cardinality, solutions) ==
  IF cardinality = "Single" THEN <<Head(solutions)>> ELSE solutions

\* Mutant: Exclusive never rejects.
ExclusiveRejectsNever(cardinality, solutions) == FALSE

\* Whether the Exclusive arm rejects the aggregate.
ExclusiveRejects(cardinality, solutions) ==
  cardinality = "Exclusive" /\ Len(solutions) > 1

(***************************************************************************)
(* The inputs: metadata elements, types, rules, registration sequences     *)
(***************************************************************************)
Attribute(tag, val) == [kind |-> "attribute", tag |-> tag, val |-> val]

Qualifier(tag, val) == [kind |-> "qualifier", tag |-> tag, val |-> val]

Cardinality_(c) == [kind |-> "cardinality", v |-> c]

Specificity_(s) == [kind |-> "specificity", v |-> s]

\* A plain type annotation: no metadata, the default solve parameters.
Plain(type) == TypeInfoNew(type, <<>>)

\* A type annotated with a cardinality only.
WithCardinality(type, c) == TypeInfoNew(type, <<Cardinality_(c)>>)

\* Bounds of the registries enumerated.
MaxSame == 3

MaxChain == 7

MaxCycle == 6

MaxCands == 3

\* The names of the types of a dependency chain or cycle.
ChainTypes == <<"K1", "K2", "K3", "K4", "K5", "K6", "K7", "K8", "K9">>

\* A rule without dependencies producing type, named after type and priority.
Leaf(name, type, priority) == RuleNew(name, Plain(type), <<>>, priority)

\* Rules without dependencies for one output type "T", one per priority of
\* prios, registered in the order of prios.
SamePriorityNames == <<"P1", "P2", "P3", "P4", "P5">>

SameOutput(prios) == [i \in DOMAIN prios |-> Leaf(SamePriorityNames[prios[i]], "T", prios[i])]

\* The sequences of pairwise distinct priorities 1..MaxSame, of every length.
DistinctPriorities ==
  {p \in SeqsUpTo(1..MaxSame, MaxSame) :
     p # <<>> /\ \A i, j \in DOMAIN p : i # j => p[i] # p[j]}

\* As SameOutput, but the rule of the highest priority, MaxSame, requires a
\* type nothing produces.
AbandonedTop(prios) ==
  [i \in DOMAIN prios |->
     IF prios[i] = MaxSame
     THEN RuleNew(SamePriorityNames[prios[i]], Plain("T"),
                  <<Dependency("a", Plain("M"))>>, prios[i])
     ELSE Leaf(SamePriorityNames[prios[i]], "T", prios[i])]

\* K1 requires K2, ..., K(n-1) requires Kn, Kn requires nothing.
Chain(n) ==
  [i \in 1..n |->
     IF i = n THEN Leaf("L", ChainTypes[n], 1)
     ELSE RuleNew(ChainTypes[i], Plain(ChainTypes[i]),
                  <<Dependency("a", Plain(ChainTypes[i + 1]))>>, 1)]

\* K1 requires K2, ..., Kn requires K1.
Cycle(n) ==
  [i \in 1..n |->
     RuleNew(ChainTypes[i], Plain(ChainTypes[i]),
             <<Dependency("a", Plain(ChainTypes[IF i = n THEN 1 ELSE i + 1]))>>, 1)]

\* Rule "R" producing "T" from b: "TB" and a: "TA" (given in that order) and,
\* when third, c: "TC"; TA has i rules, TB has j rules, TC one.
ANames == <<"A1", "A2", "A3", "A4", "A5">>

BNames == <<"B1", "B2", "B3", "B4", "B5">>

Cands(type, names, n) == [k \in 1..n |-> Leaf(names[k], type, k)]

Combination(i, j, third) ==
  <<RuleNew("R", Plain("T"),
            <<Dependency("b", WithCardinality("TB", "Exhaustive")),
              Dependency("a", WithCardinality("TA", "Exhaustive"))>>
            \o (IF third THEN <<Dependency("c", Plain("TC"))>> ELSE <<>>),
            1)>>
  \o Cands("TA", ANames, i) \o Cands("TB", BNames, j)
  \o (IF third THEN <<Leaf("C", "TC", 1)>> ELSE <<>>)

\* "T" has a rule H of priority 2 and a rule L of priority 1; each either
\* needs nothing ("none"), needs a type nothing produces ("missing"), needs a
\* type a rule produces ("present"), needs every "T" itself ("cycle") or needs a
\* type two rules produce ("ambiguous"), one of them from a further type.
Needs == {"none", "missing", "present", "cycle", "ambiguous"}

NeedOf(need, name, type) ==
  CASE need = "none"    -> <<>>
    [] need = "missing" -> <<Dependency(name, Plain("M"))>>
    [] need = "present" -> <<Dependency(name, Plain(type))>>
    [] need = "cycle"   -> <<Dependency(name, WithCardinality("T", "Exhaustive"))>>
    [] need = "ambiguous" -> <<Dependency(name, Plain("Z"))>>

TwoRules(h, l) ==
  <<RuleNew("H", Plain("T"), NeedOf(h, "a", "X"), 2),
    RuleNew("L", Plain("T"), NeedOf(l, "b", "Y"), 1),
    Leaf("X1", "X", 1), Leaf("Y1", "Y", 1),
    RuleNew("Z1", Plain("Z"), <<Dependency("a", Plain("X"))>>, 1), Leaf("Z2", "Z", 2)>>

\* The requests made of "T": one per cardinality.
RequestsOfT == {WithCardinality("T", c) : c \in SolveCardinality}

\* A rule for Leaf and a rule for its ancestor Base, and the requests of every
\* Base under each specificity.
Hierarchy == <<Leaf("ForLeaf", "Leaf", 1), Leaf("ForBase", "Base", 1)>>

RequestsOfBase ==
  {TypeInfoNew("Base", <<Specificity_(sp), Cardinality_("Exhaustive")>>) :
     sp \in SolveSpecificity}

\* "TA" and "TB" each have a rule that requires every Solution of the other
\* and, at a lower priority, a rule that requires nothing.
Mutual ==
  <<RuleNew("A1", Plain("TA"), <<Dependency("b", WithCardinality("TB", "Exhaustive"))>>, 2),
    Leaf("A2", "TA", 1),
    RuleNew("B1", Plain("TB"), <<Dependency("a", WithCardinality("TA", "Exhaustive"))>>, 2),
    Leaf("B2", "TB", 1)>>

RequestsOfMutual == {WithCardinality("TA", "Exhaustive"), WithCardinality("TB", "Exhaustive")}

\* Rule "R" produces "T" from a: "TA" declared Single and b: "TB" declared
\* with the default cardinality, Exclusive; "TA" and "TB" have two rules each.
\* The requests ask for every Solution of each of the three types.
Restricted ==
  <<RuleNew("R", Plain("T"),
            <<Dependency("a", WithCardinality("TA", "Single")),
              Dependency("b", Plain("TB"))>>, 1)>>
  \o Cands("TA", ANames, 2) \o Cands("TB", BNames, 2)

RequestsOfRestricted == {WithCardinality(t, "Exhaustive") : t \in {"T", "TA", "TB"}}

\* One rule produces "T" annotated with a value of tag-type "A" and a value of
\* tag-type "B".  The requests give the same two values in either order, and
\* once after a value of "A" that the later one replaces.
Annotated ==
  <<RuleNew("P", TypeInfoNew("T", <<Attribute("A", 1), Attribute("B", 2)>>), <<>>, 1)>>

RequestsOfAnnotated ==
  {TypeInfoNew("T", <<Attribute("A", 1), Attribute("B", 2)>>),
   TypeInfoNew("T", <<Attribute("B", 2), Attribute("A", 1)>>),
   TypeInfoNew("T", <<Attribute("A", 3), Attribute("A", 1), Attribute("B", 2)>>)}

\* A host object that is not a Rule, and whether an element of the argument
\* of add_rules is one (downcast::<Rule>).
NotARule == [object |-> "not a rule"]

IsRule(element) == "canonical_name" \in DOMAIN element

\* An argument of add_rules whose second element is not a Rule, between a rule
\* for Leaf and a rule for its ancestor Base; Base is then requested with its
\* subclasses.
Interrupted == <<Leaf("ForLeaf", "Leaf", 1), NotARule, Leaf("ForBase", "Base", 1)>>

RequestsOfInterrupted ==
  {TypeInfoNew("Base", <<Specificity_("AllowSubclass"), Cardinality_("Exhaustive")>>)}

\* What is registered, and what is then requested.
Scenario(rules, targets) == [rules |-> rules, targets |-> targets]

Scenarios ==
  {Scenario(SameOutput(p), RequestsOfT) : p \in DistinctPriorities}
  \cup {Scenario(Chain(n), {Plain("K1"), Plain("K2")}) : n \in 1..MaxChain}
  \cup {Scenario(Cycle(n), {Plain("K1"), Plain("K2")}) : n \in 1..MaxCycle}
  \cup {Scenario(Combination(i, j, third),
                 {WithCardinality("T", "Exhaustive"), WithCardinality("TA", "Single")}) :
          i \in 0..MaxCands, j \in 0..MaxCands, third \in BOOLEAN}
  \cup {Scenario(TwoRules(h, l), RequestsOfT) : h \in Needs, l \in Needs}
  \cup {Scenario(Hierarchy, RequestsOfBase)}
  \cup {Scenario(Mutual, RequestsOfMutual)}
  \cup {Scenario(Restricted, RequestsOfRestricted)}
  \cup {Scenario(Annotated, RequestsOfAnnotated)}
  \cup {Scenario(Interrupted, RequestsOfInterrupted)}
  \cup {Scenario(AbandonedTop(p), {WithCardinality("T", "Single")}) :
          p \in {q \in DistinctPriorities : MaxSame \in Range(q)}}

(***************************************************************************)
(* The state                                                               *)
(***************************************************************************)
VARIABLES
  pending,   \* the rules still to be registered, in order (add_rules)
  targets,   \* the requests the client may make
  registry,  \* the RuleRegistry
  solver,    \* Option<Solver>: its own copy of the registry
  memo,      \* the Solver's SolutionsMemo
  calls,     \* per thread: the top-level solve_for in progress or returned
  earlier,   \* Option: a request and its result the client kept
  lookup     \* Option: the last get_rules request and what it returned

vars == <<pending, targets, registry, solver, memo, calls, earlier, lookup>>

\* The threads that may call the Solver.
Threads == {1, 2}

\* Mutant: a Solver that keeps a reference to the registry it was given.
SolverRulesShared == registry

\* self.solver.rules: the registry the Solver holds, its own since __new__.
SolverRules == solver.val

\* A frame of the recursion of _Solver::solve_for.  pc is "enter" before the
\* memo was read and "loop" inside the loop over the rules; ri is the
\* (1-based) position in rules, args the candidates of the current rule.
EnterFrame(name, target) ==
  [name |-> name, target |-> target, pc |-> "enter",
   rules |-> <<>>, ri |-> 1, args |-> <<>>, solutions |-> <<>>]

NoResult == [ok |-> FALSE, solutions |-> <<>>, errors |-> <<>>]

IdleCall ==
  [status |-> "idle", target |-> Plain("object"), frames |-> <<>>,
   execution_stack |-> <<>>, errors |-> <<>>, result |-> NoResult,
   lookups |-> 0, pushes |-> 0, resolves |-> 0]

Last(s) == s[Len(s)]

Front(s) == SubSeq(s, 1, Len(s) - 1)

Top(call) == Last(call.frames)

Running(c) == calls[c].status = "running"

AtEnter(c) == Running(c) /\ Top(calls[c]).pc = "enter"

InLoop(c) ==
  Running(c) /\ Top(calls[c]).pc = "loop" /\ Top(calls[c]).ri <= Len(Top(calls[c]).rules)

AfterLoop(c) ==
  Running(c) /\ Top(calls[c]).pc = "loop" /\ Top(calls[c]).ri > Len(Top(calls[c]).rules)

CurrentRule(frame) == frame.rules[frame.ri]

\* Mutant: the reason, after the reasons every other call has recorded so far.
push_error_all(call, reason) ==
  LET others == {d \in Threads : calls[d] # call /\ calls[d].errors # <<>>}
  IN  [call EXCEPT !.errors =
         (IF others = {} THEN @ ELSE @ \o calls[CHOOSE d \in others : TRUE].errors)
         \o <<[stack |-> call.execution_stack, reason |-> reason]>>]

\* Mutant: the reason, with the stack short of its last step.
push_error_short(call, reason) ==
  [call EXCEPT !.errors =
     Append(@, [stack |-> Front(call.execution_stack), reason |-> reason])]

\* _Solver::push_error: the reason, with a copy of the stack as it is.
push_error(call, reason) ==
  [call EXCEPT !.errors = Append(@, [stack |-> call.execution_stack, reason |-> reason])]

\* StepRaii::new
StepPush(call, step) ==
  [call EXCEPT !.execution_stack = Append(@, step), !.pushes = @ + 1]

\* Mutant: a guard that leaves its step on the stack.
StepDropNothing(call) == call

\* impl Drop for StepRaii
StepDrop(call) == [call EXCEPT !.execution_stack = Front(@)]

\* Mutant: a failed dependency that fails the whole target.
ResumeCallerAbort(frame, value) ==
  IF value.some
  THEN LET dep == CurrentRule(frame).dependencies[Len(frame.args) + 1]
       IN  [frame EXCEPT !.args = Append(@, SolutionArgCandidate(dep.name, value.val))]
  ELSE [frame EXCEPT !.ri = Len(frame.rules) + 1, !.args = <<>>, !.solutions = <<>>]

\* Mutant: a failed dependency that is taken as an empty candidate list.
ResumeCallerKeepRule(frame, value) ==
  LET dep == CurrentRule(frame).dependencies[Len(frame.args) + 1]
  IN  [frame EXCEPT !.args = Append(@, SolutionArgCandidate(dep.name,
                                        IF value.some THEN value.val ELSE <<>>))]

\* Mutant: a failed dependency makes the caller start the same rule again.
ResumeCallerRetry(frame, value) ==
  IF value.some
  THEN LET dep == CurrentRule(frame).dependencies[Len(frame.args) + 1]
       IN  [frame EXCEPT !.args = Append(@, SolutionArgCandidate(dep.name, value.val))]
  ELSE [frame EXCEPT !.args = <<>>]

\* The match on the value a recursive solve_for returned, in the caller:
\* Some adds a candidate, None leaves the rule (continue 'rule).
ResumeCaller(frame, value) ==
  IF value.some
  THEN LET dep == CurrentRule(frame).dependencies[Len(frame.args) + 1]
       IN  [frame EXCEPT !.args = Append(@, SolutionArgCandidate(dep.name, value.val))]
  ELSE [frame EXCEPT !.ri = @ + 1, !.args = <<>>]

\* Mutant: a failure that reports only the last reason recorded.
SolveForResultLastError(call, value) ==
  IF value.some THEN [ok |-> TRUE, solutions |-> value.val, errors |-> <<>>]
  ELSE [ok |-> FALSE, solutions |-> <<>>,
        errors |-> IF call.errors = <<>> THEN <<>> ELSE <<Last(call.errors)>>]

\* Solver::solve_for, after the recursion returned: the solutions, or every
\* (stack, reason) recorded.
SolveForResult(call, value) ==
  IF value.some THEN [ok |-> TRUE, solutions |-> value.val, errors |-> <<>>]
  ELSE [ok |-> FALSE, solutions |-> <<>>, errors |-> call.errors]

\* The innermost solve_for returns value: its frame goes, and its caller (a
\* solve_for one level up, or Solver::solve_for at the root) takes the value.
Return(call, value) ==
  LET rest == Front(call.frames)
  IN  IF rest = <<>>
      THEN [call EXCEPT !.frames = <<>>, !.status = "done",
                        !.result = SolveForResult(call, value)]
      ELSE [call EXCEPT !.frames = Front(rest) \o <<ResumeCaller(Last(rest), value)>>]

(***************************************************************************)
(* Registration, and the construction of the Solver                        *)
(***************************************************************************)
\* Mutant: add_rules that passes over an element it rejects and goes on.
AddRuleSkipping ==
  /\ pending # <<>>
  /\ solver = None
  /\ registry' = IF IsRule(Head(pending)) THEN add_rule(registry, Head(pending))
                 ELSE registry
  /\ pending' = Tail(pending)
  /\ UNCHANGED <<targets, solver, memo, calls, earlier, lookup>>

\* RuleRegistry::add_rules, one element per step: a Rule is registered; at an
\* element that is no Rule the call returns the error, the registry as it
\* is and the elements after it not looked at.
AddRule ==
  /\ pending # <<>>
  /\ solver = None
  /\ IF IsRule(Head(pending))
     THEN /\ registry' = add_rule(registry, Head(pending))
          /\ pending' = Tail(pending)
     ELSE /\ registry' = registry
          /\ pending' = <<>>
  /\ UNCHANGED <<targets, solver, memo, calls, earlier, lookup>>

\* Solver::__new__
NewSolver ==
  /\ pending = <<>>
  /\ solver = None
  /\ solver' = Some(RuleRegistryCloneRef(registry))
  /\ UNCHANGED <<pending, targets, registry, memo, calls, earlier, lookup>>

(***************************************************************************)
(* Solver::solve_for and _Solver::solve_for                                *)
(***************************************************************************)
\* A client calls Solver::solve_for(target) on thread c.  It may keep the
\* result of the call that returned before.
SolveFor(c, target) ==
  /\ solver.some
  /\ ~Running(c)
  /\ \A d \in Threads : ~Running(d)
  /\ calls' = [calls EXCEPT ![c] =
                 [IdleCall EXCEPT !.status = "running", !.target = target,
                                  !.frames = <<EnterFrame("__root__", target)>>]]
  /\ \/ earlier' = earlier
     \/ /\ calls[c].status = "done"
        /\ earlier' = Some([target |-> calls[c].target, result |-> calls[c].result])
  /\ UNCHANGED <<pending, targets, registry, solver, memo, lookup>>

\* solve_for, lines 169-171: the memo holds the target.
MemoHit(c) ==
  /\ AtEnter(c)
  /\ read_memo(memo, Top(calls[c]).target).some
  /\ calls' = [calls EXCEPT ![c] = Return(@, read_memo(memo, Top(calls[c]).target))]
  /\ UNCHANGED <<pending, targets, registry, solver, memo, earlier, lookup>>

\* solve_for through push_stack's depth guard: no step, no reason, None.
DepthBail(c) ==
  /\ AtEnter(c)
  /\ ~read_memo(memo, Top(calls[c]).target).some
  /\ push_stack(calls[c].execution_stack, Top(calls[c]).name, Top(calls[c]).target) = "depth"
  /\ calls' = [calls EXCEPT ![c] = Return(@, None)]
  /\ UNCHANGED <<pending, targets, registry, solver, memo, earlier, lookup>>

\* solve_for through push_stack's cycle arm: the step is pushed, the reason
\* recorded with it on the stack, the step dropped, None.
CycleDetected(c) ==
  LET f    == Top(calls[c])
      step == ExecutionStep(f.name, f.target)
  IN  /\ AtEnter(c)
      /\ ~read_memo(memo, f.target).some
      /\ push_stack(calls[c].execution_stack, f.name, f.target) = "cyclic"
      /\ calls' = [calls EXCEPT ![c] =
                     Return(StepDrop(push_error(StepPush(@, step), CyclicDependency)), None)]
      /\ UNCHANGED <<pending, targets, registry, solver, memo, earlier, lookup>>

\* solve_for, lines 177-182: the step is pushed and the registry has nothing.
NoRules(c) ==
  LET f    == Top(calls[c])
      step == ExecutionStep(f.name, f.target)
  IN  /\ AtEnter(c)
      /\ ~read_memo(memo, f.target).some
      /\ push_stack(calls[c].execution_stack, f.name, f.target) = "pushed"
      /\ None \in get(SolverRules, f.target)
      /\ calls' = [calls EXCEPT ![c] =
                     Return(StepDrop(push_error(
                              [StepPush(@, step) EXCEPT !.lookups = @ + 1], NoSolution)),
                            None)]
      /\ UNCHANGED <<pending, targets, registry, solver, memo, earlier, lookup>>

\* solve_for, lines 173-183: the step is pushed and the registry delivers rules.
Lookup(c) ==
  LET f    == Top(calls[c])
      step == ExecutionStep(f.name, f.target)
  IN  /\ AtEnter(c)
      /\ ~read_memo(memo, f.target).some
      /\ push_stack(calls[c].execution_stack, f.name, f.target) = "pushed"
      /\ \E found \in get(SolverRules, f.target) :
           /\ found.some
           /\ calls' = [calls EXCEPT ![c] =
                          [StepPush(@, step) EXCEPT
                             !.lookups = @ + 1,
                             !.frames = Front(@) \o <<[f EXCEPT !.pc = "loop",
                                                               !.rules = found.val]>>]]
      /\ UNCHANGED <<pending, targets, registry, solver, memo, earlier, lookup>>

\* The loop body for a rule without dependencies (lines 185-189).
RuleWithoutDependencies(c) ==
  LET f == Top(calls[c])
  IN  /\ InLoop(c)
      /\ CurrentRule(f).dependencies = <<>>
      /\ calls' = [calls EXCEPT ![c].frames =
                     Front(@) \o <<[f EXCEPT
                        !.solutions = Append(@, Solution(CurrentRule(f),
                                                         SolutionArgsCollectionDefault)),
                        !.ri = @ + 1]>>]
      /\ UNCHANGED <<pending, targets, registry, solver, memo, earlier, lookup>>

\* The recursive solve_for for the next dependency of the rule (line 193).
ResolveDependency(c) ==
  LET f == Top(calls[c])
  IN  /\ InLoop(c)
      /\ Len(f.args) < Len(CurrentRule(f).dependencies)
      /\ LET dep == CurrentRule(f).dependencies[Len(f.args) + 1]
         IN  calls' = [calls EXCEPT ![c].frames = Append(@, EnterFrame(dep.name, dep.typing)),
                                    ![c].resolves = @ + 1]
      /\ UNCHANGED <<pending, targets, registry, solver, memo, earlier, lookup>>

\* Every dependency of the rule resolved: the expansion (lines 203-213).
Permutate(c) ==
  LET f == Top(calls[c])
  IN  /\ InLoop(c)
      /\ CurrentRule(f).dependencies # <<>>
      /\ Len(f.args) = Len(CurrentRule(f).dependencies)
      /\ LET expanded == permutate_candidates(f.args)
             advanced == [f EXCEPT !.ri = @ + 1, !.args = <<>>]
         IN  calls' = [calls EXCEPT ![c] =
                IF expanded.ok
                THEN [@ EXCEPT !.frames = Front(@) \o
                        <<[advanced EXCEPT !.solutions =
                             @ \o [i \in DOMAIN expanded.val |->
                                     Solution(CurrentRule(f), expanded.val[i])]]>>]
                ELSE [push_error(@, expanded.err) EXCEPT
                        !.frames = Front(@) \o <<advanced>>]]
      /\ UNCHANGED <<pending, targets, registry, solver, memo, earlier, lookup>>

\* After the loop, nothing was produced (lines 216-218).
NoSolutions(c) ==
  /\ AfterLoop(c)
  /\ Top(calls[c]).solutions = <<>>
  /\ calls' = [calls EXCEPT ![c] = Return(StepDrop(push_error(@, NoSolution)), None)]
  /\ UNCHANGED <<pending, targets, registry, solver, memo, earlier, lookup>>

\* After the loop, the Exclusive arm rejects (lines 226-230).
RejectNotExclusive(c) ==
  LET f == Top(calls[c])
  IN  /\ AfterLoop(c)
      /\ f.solutions # <<>>
      /\ ExclusiveRejects(f.target.solve_parameter.cardinality, f.solutions)
      /\ calls' = [calls EXCEPT ![c] =
                     Return(StepDrop(push_error(@, NotExclusive(f.solutions))), None)]
      /\ UNCHANGED <<pending, targets, registry, solver, memo, earlier, lookup>>

\* After the loop, the policy lets the aggregate through: it is saved in the
\* memo and returned (lines 220-239).
SaveAndReturn(c) ==
  LET f == Top(calls[c])
  IN  /\ AfterLoop(c)
      /\ f.solutions # <<>>
      /\ ~ExclusiveRejects(f.target.solve_parameter.cardinality, f.solutions)
      /\ LET kept == ApplyCardinality(f.target.solve_parameter.cardinality, f.solutions)
         IN  /\ memo' = save_memo(memo, f.target, kept)
             /\ calls' = [calls EXCEPT ![c] = Return(StepDrop(@), Some(kept))]
      /\ UNCHANGED <<pending, targets, registry, solver, earlier, lookup>>

\* One step of the solve_for running on thread c.
Step(c) ==
  \/ MemoHit(c)
  \/ DepthBail(c)
  \/ CycleDetected(c)
  \/ NoRules(c)
  \/ Lookup(c)
  \/ RuleWithoutDependencies(c)
  \/ ResolveDependency(c)
  \/ Permutate(c)
  \/ NoSolutions(c)
  \/ RejectNotExclusive(c)
  \/ SaveAndReturn(c)

(***************************************************************************)
(* The specification: registration, then one Solver called from one thread *)
(***************************************************************************)
Init ==
  /\ \E s \in Scenarios : pending = s.rules /\ targets = s.targets
  /\ registry = RuleRegistryDefault
  /\ solver = None
  /\ memo = {}
  /\ calls = [c \in Threads |-> IdleCall]
  /\ earlier = None
  /\ lookup = None

Next ==
  \/ AddRule
  \/ NewSolver
  \/ \E t \in targets : SolveFor(1, t)
  \/ Step(1)

Spec == Init /\ [][Next]_vars

\* A solve_for that was called runs on: the recursion is synchronous and
\* nothing suspends it.
SpecFair == Spec /\ \A c \in Threads : WF_vars(Step(c))

(***************************************************************************)
(* Helpers of the properties                                               *)
(***************************************************************************)
RECURSIVE RegistryOf(_)
\* The registry after add_rules(rules) on an empty one.
RegistryOf(rules) ==
  IF rules = <<>> THEN RuleRegistryDefault
  ELSE add_rule(RegistryOf(Front(rules)), Last(rules))

\* The Solver was constructed over the registry of rules.
SolverOver(rules) == solver.some /\ solver.val = RuleRegistryCloneRef(RegistryOf(rules))

Done(c) == calls[c].status = "done"

HasReason(errors, kind) == \E i \in DOMAIN errors : errors[i].reason.kind = kind

\* target is on the execution stack of call, by TypeInfo's equality.
OnStack(call, target) ==
  \E i \in DOMAIN call.execution_stack : TypeInfoEq(call.execution_stack[i].target, target)

\* The innermost solve_for of thread c returns None in this step: its frame
\* goes and its caller leaves the rule it was working on.
ReturnsNone(c) ==
  /\ Len(calls[c].frames) >= 2
  /\ Len(calls'[c].frames) = Len(calls[c].frames) - 1
  /\ Top(calls'[c]) = ResumeCaller(calls[c].frames[Len(calls[c].frames) - 1], None)

(***************************************************************************)
(* C1: if solve(T) succeeded, a later solve(T) on the same Solver returns  *)
(* the same sequence and is answered by the memo alone: no registry        *)
(* lookup, nothing pushed on the execution stack, no dependency resolved.  *)
(***************************************************************************)
C1_SecondSolveFromMemo ==
  \A c \in Threads :
    (/\ Done(c)
     /\ earlier.some
     /\ earlier.val.target = calls[c].target
     /\ earlier.val.result.ok)
    => /\ calls[c].result.ok
       /\ calls[c].result.solutions = earlier.val.result.solutions
       /\ calls[c].lookups = 0
       /\ calls[c].pushes = 0
       /\ calls[c].resolves = 0

\* A second solve of a target whose solutions have arguments has returned.
C1_Witness ==
  \E c \in Threads :
    /\ Done(c)
    /\ earlier.some
    /\ earlier.val.target = calls[c].target
    /\ earlier.val.result.ok
    /\ calls[c].result.ok
    /\ \E i \in DOMAIN calls[c].result.solutions :
         calls[c].result.solutions[i].args.args # <<>>

(***************************************************************************)
(* C2: with R1 producing K1 from K2 and R2 producing K2 from K1, solve(K1) *)
(* fails with a CyclicDependency reason; and whenever solve_for is entered *)
(* for a target equal to one on the execution stack, a CyclicDependency    *)
(* reason is recorded and the branch returns no result.                    *)
(***************************************************************************)
CycleOfTwo == RuleRegistryCloneRef(RegistryOf(Cycle(2)))

C2_CycleOfTwoFails ==
  \A c \in Threads :
    (solver = Some(CycleOfTwo) /\ Done(c) /\ TypeInfoEq(calls[c].target, Plain("K1")))
    => ~calls[c].result.ok /\ HasReason(calls[c].result.errors, "CyclicDependency")

\* The step of thread c records CyclicDependency, with the re-entered step
\* on the snapshot, and returns None.
RecordsCycle(c) ==
  /\ Len(calls'[c].errors) = Len(calls[c].errors) + 1
  /\ Last(calls'[c].errors).reason = CyclicDependency
  /\ Last(calls'[c].errors).stack =
       Append(calls[c].execution_stack,
              ExecutionStep(Top(calls[c]).name, Top(calls[c]).target))
  /\ calls'[c].execution_stack = calls[c].execution_stack
  /\ ReturnsNone(c)

\* The claim as stated: every entry for a target on the stack.
C2_AsStated ==
  [][/\ C2_CycleOfTwoFails'
     /\ \A c \in Threads :
          (AtEnter(c) /\ OnStack(calls[c], Top(calls[c]).target) /\ calls'[c] # calls[c])
          => RecordsCycle(c)]_vars

\* The claim as amended: every entry for a target on the stack while the
\* stack holds at most DepthLimit steps; a deeper entry returns None with no
\* reason recorded.
C2_CycleRecorded ==
  [][/\ C2_CycleOfTwoFails'
     /\ \A c \in Threads :
          (AtEnter(c) /\ OnStack(calls[c], Top(calls[c]).target) /\ calls'[c] # calls[c])
          => IF Len(calls[c].execution_stack) <= DepthLimit
             THEN RecordsCycle(c)
             ELSE calls'[c].errors = calls[c].errors /\ ReturnsNone(c)]_vars

\* solve(K1) over the two-rule cycle has failed, and a call stands at the
\* entry of solve_for for a target that is on its stack.
C2_Witness ==
  \E c \in Threads :
    /\ solver = Some(CycleOfTwo)
    /\ Done(c)
    /\ HasReason(calls[c].result.errors, "CyclicDependency")

(***************************************************************************)
(* C3: every solve_for that was called returns, with solutions or with the *)
(* reasons recorded, whatever the registry: cycles and chains of any       *)
(* length included.                                                        *)
(***************************************************************************)
\* The frames a call can hold: one per step on the stack, and the one of a
\* solve_for that has not passed push_stack yet.
RankLen == DepthLimit + 2

\* What is left to do at level k of the recursion: nothing there yet (3), a
\* solve_for at its entry (2), a solve_for in its loop with the rules and
\* the dependencies of the current rule still to go (1), returned (0).
PositionRank(call, k) ==
  IF call.status # "running" THEN <<0, 0, 0>>
  ELSE IF k > Len(call.frames) THEN <<3, 0, 0>>
  ELSE LET f == call.frames[k]
       IN  IF f.pc = "enter" THEN <<2, 0, 0>>
           ELSE <<1, Len(f.rules) - f.ri + 1,
                  IF f.ri <= Len(f.rules)
                  THEN Len(CurrentRule(f).dependencies) - Len(f.args) ELSE 0>>

Rank(call) == Flatten([k \in 1..RankLen |-> PositionRank(call, k)])

LexLess(a, b) == \E i \in DOMAIN a : a[i] < b[i] /\ \A j \in 1..(i - 1) : a[j] = b[j]

\* Every step of a call lowers its rank, a tuple of naturals in lexicographic
\* order, within RankLen levels; and a running call returns.
C3_SolveTerminates ==
  /\ [][\A c \in Threads :
          (Running(c) /\ calls'[c] # calls[c])
          => /\ Len(calls'[c].frames) <= RankLen
             /\ LexLess(Rank(calls'[c]), Rank(calls[c]))]_vars
  /\ \A c \in Threads : Running(c) ~> Done(c)

\* A call over a cycle of more rules than the depth guard admits, and one
\* over a chain longer than that, have returned.
C3_Witness ==
  \E c \in Threads :
    /\ Done(c)
    /\ ~calls[c].result.ok
    /\ solver.some
    /\ "K6" \in DOMAIN solver.val.rules
    /\ ~HasReason(calls[c].result.errors, "CyclicDependency")

(***************************************************************************)
(* Helpers: what the innermost solve_for hands to its caller in a step     *)
(***************************************************************************)
\* The frame of the caller of the innermost solve_for of thread c.
Caller(c) == calls[c].frames[Len(calls[c].frames) - 1]

\* In this step the innermost solve_for of thread c returns None: at the root
\* the call fails with every reason recorded; below it, the caller leaves the
\* rule it was working on for the next one, its solutions as they were.
HandsNone(c) ==
  IF Len(calls[c].frames) = 1
  THEN /\ calls'[c].status = "done"
       /\ calls'[c].result = [ok |-> FALSE, solutions |-> <<>>, errors |-> calls'[c].errors]
  ELSE /\ Len(calls'[c].frames) = Len(calls[c].frames) - 1
       /\ Top(calls'[c]) = [Caller(c) EXCEPT !.ri = @ + 1, !.args = <<>>]

\* In this step the innermost solve_for of thread c returns Some(value): at
\* the root the call succeeds with value; below it, the caller has value as
\* the candidates of the dependency it asked for.
HandsSome(c, value) ==
  IF Len(calls[c].frames) = 1
  THEN /\ calls'[c].status = "done"
       /\ calls'[c].result = [ok |-> TRUE, solutions |-> value, errors |-> <<>>]
  ELSE /\ Len(calls'[c].frames) = Len(calls[c].frames) - 1
       /\ LET dep == CurrentRule(Caller(c)).dependencies[Len(Caller(c).args) + 1]
          IN  Top(calls'[c]) =
                [Caller(c) EXCEPT !.args = Append(@, SolutionArgCandidate(dep.name, value))]

\* The Solvers over two rules without dependencies that produce "T".
TwoForT ==
  {RuleRegistryCloneRef(RegistryOf(SameOutput(p))) : p \in {q \in DistinctPriorities : Len(q) = 2}}

(***************************************************************************)
(* C4: when the loop over the rules of a target requested as Exclusive     *)
(* ends with more than one Solution, a NotExclusive reason carrying all of *)
(* them is recorded, the solve_for returns None and the memo keeps none;   *)
(* over two rules without dependencies for one type, solve of that type as *)
(* Exclusive fails with a NotExclusive reason listing both.                *)
(***************************************************************************)
C4_ExclusiveRejectsMany ==
  /\ [][\A c \in Threads :
          (/\ AfterLoop(c)
           /\ Top(calls[c]).target.solve_parameter.cardinality = "Exclusive"
           /\ Len(Top(calls[c]).solutions) > 1
           /\ calls'[c] # calls[c])
          => /\ calls'[c].errors =
                  Append(calls[c].errors,
                         [stack  |-> calls[c].execution_stack,
                          reason |-> NotExclusive(Top(calls[c]).solutions)])
             /\ HandsNone(c)
             /\ memo' = memo]_vars
  /\ [][\A c \in Threads :
          (/\ solver.some
           /\ solver.val \in TwoForT
           /\ memo = {}
           /\ Running(c)
           /\ calls[c].target.solve_parameter.cardinality = "Exclusive"
           /\ calls'[c].status = "done")
          => /\ ~calls'[c].result.ok
             /\ \E i \in DOMAIN calls'[c].result.errors :
                  LET reason == calls'[c].result.errors[i].reason
                  IN  /\ reason.kind = "NotExclusive"
                      /\ Len(reason.solutions) = 2
                      /\ {reason.solutions[k].rule : k \in 1..2} =
                           Range(solver.val.rules["T"])]_vars

\* A dependency requested as Exclusive was rejected, below the root, over
\* Solutions that have arguments.
C4_Witness ==
  \E c \in Threads :
    /\ Done(c)
    /\ ~calls[c].result.ok
    /\ \E i \in DOMAIN calls[c].result.errors :
         LET e == calls[c].result.errors[i]
         IN  /\ e.reason.kind = "NotExclusive"
             /\ Len(e.stack) > 1
             /\ Len(e.reason.solutions) > 1
             /\ \E k \in DOMAIN e.reason.solutions : e.reason.solutions[k].args.args # <<>>

\* Over two rules without dependencies for "T", a solve of "T" as Exclusive
\* on an empty memo has failed.
C4_WitnessTwoRules ==
  \E c \in Threads :
    /\ solver.some
    /\ solver.val \in TwoForT
    /\ memo = {}
    /\ Done(c)
    /\ calls[c].target.solve_parameter.cardinality = "Exclusive"
    /\ HasReason(calls[c].result.errors, "NotExclusive")

(***************************************************************************)
(* C5: over rules without dependencies for one output type, registered in  *)
(* any order with pairwise distinct priorities, a solve of the type as     *)
(* Single on an empty memo returns exactly one Solution, and no rule has a *)
(* higher priority than the one of that Solution.                          *)
(***************************************************************************)
\* The Solvers over such rules for "T", one per registration order.
SameOutputSolvers ==
  {RuleRegistryCloneRef(RegistryOf(SameOutput(p))) : p \in DistinctPriorities}

C5_SingleTakesHighest ==
  [][\A c \in Threads :
       (/\ solver.some
        /\ solver.val \in SameOutputSolvers
        /\ memo = {}
        /\ Running(c)
        /\ calls[c].target.solve_parameter.cardinality = "Single"
        /\ calls'[c].status = "done")
       => /\ calls'[c].result.ok
          /\ Len(calls'[c].result.solutions) = 1
          /\ \A r \in Range(solver.val.rules["T"]) :
               r.priority <= calls'[c].result.solutions[1].rule.priority]_vars

\* Registered lowest, highest, middle: a solve as Single that went to the
\* registry returned the rule registered second.
C5_Witness ==
  \E c \in Threads :
    /\ solver = Some(RuleRegistryCloneRef(RegistryOf(SameOutput(<<1, 3, 2>>))))
    /\ Done(c)
    /\ calls[c].target.solve_parameter.cardinality = "Single"
    /\ calls[c].lookups = 1
    /\ calls[c].result.ok
    /\ calls[c].result.solutions[1].rule.priority = 3

(***************************************************************************)
(* C6: when every dependency of a rule has resolved, to k1..kn Solutions,  *)
(* the rule contributes exactly k1*...*kn Solutions; each binds every      *)
(* dependency name once, to one of the Solutions the dependency resolved   *)
(* to, and no two bind the same tuple.                                     *)
(***************************************************************************)
RECURSIVE ProductOfCounts(_)
ProductOfCounts(candidates) ==
  IF candidates = <<>> THEN 1
  ELSE Len(Head(candidates).solutions) * ProductOfCounts(Tail(candidates))

\* What a Solution binds: the (name, Solution) pairs of its arguments.
Binding(solution) ==
  {<<solution.args.args[k].name, solution.args.args[k].solution>> :
     k \in DOMAIN solution.args.args}

C6_CartesianProduct ==
  [][\A c \in Threads :
       (/\ InLoop(c)
        /\ CurrentRule(Top(calls[c])).dependencies # <<>>
        /\ Len(Top(calls[c]).args) = Len(CurrentRule(Top(calls[c])).dependencies)
        /\ calls'[c] # calls[c])
       => LET f     == Top(calls[c])
              rule  == CurrentRule(f)
              old   == f.solutions
              new   == Top(calls'[c]).solutions
              added == SubSeq(new, Len(old) + 1, Len(new))
          IN  /\ Len(calls'[c].frames) = Len(calls[c].frames)
              /\ SubSeq(new, 1, Len(old)) = old
              /\ Len(added) = ProductOfCounts(f.args)
              /\ \A i \in DOMAIN added :
                   /\ added[i].rule = rule
                   /\ Len(added[i].args.args) = Len(rule.dependencies)
                   /\ \A d \in DOMAIN rule.dependencies :
                        \E k \in DOMAIN f.args :
                          /\ f.args[k].name = rule.dependencies[d].name
                          /\ Cardinality({b \in Binding(added[i]) :
                                            b[1] = rule.dependencies[d].name}) = 1
                          /\ \E x \in Range(f.args[k].solutions) :
                               <<rule.dependencies[d].name, x>> \in Binding(added[i])
              /\ \A i, j \in DOMAIN added :
                   i # j => Binding(added[i]) # Binding(added[j])]_vars

\* Two candidates for a and three for b gave six Solutions of rule R.
C6_Witness ==
  \E c \in Threads :
    /\ solver = Some(RuleRegistryCloneRef(RegistryOf(Combination(2, 3, FALSE))))
    /\ Done(c)
    /\ calls[c].result.ok
    /\ Len(calls[c].result.solutions) = 6
    /\ \A i \in 1..6 : calls[c].result.solutions[i].rule.canonical_name = "R"
    /\ Cardinality({Binding(calls[c].result.solutions[i]) : i \in 1..6}) = 6

(***************************************************************************)
(* The specification of the registry alone: rules are registered one by    *)
(* one, and get_rules is called in between                                 *)
(***************************************************************************)
\* The most rules registered.
MaxReg == 3

\* The rules registered: for Leaf one plain and one with attributes of
\* tag-types A and B, for Base one plain, for Mid one with an attribute of
\* tag-type A of another value, for Leaf one with a dependency name twice.
LeafRule == Leaf("LeafRule", "Leaf", 1)

ABRule ==
  RuleNew("ABRule", TypeInfoNew("Leaf", <<Attribute("A", 1), Attribute("B", 1)>>), <<>>, 2)

BaseRule == Leaf("BaseRule", "Base", 1)

MidRule == RuleNew("MidRule", TypeInfoNew("Mid", <<Attribute("A", 2)>>), <<>>, 3)

\* A rule for Leaf, of the highest priority, built from a mapping whose items
\* name "a" twice.
DupRule ==
  RuleNew("DupRule", Plain("Leaf"),
          <<Dependency("a", Plain("Base")), Dependency("a", Plain("Mid"))>>, 3)

RulePool == {LeafRule, ABRule, BaseRule, MidRule, DupRule}

\* The attributes requested: none, A, A of another value, B, A and B, A and C.
AttributeRequests ==
  {<<>>, <<Attribute("A", 1)>>, <<Attribute("A", 2)>>, <<Attribute("B", 1)>>,
   <<Attribute("A", 1), Attribute("B", 1)>>, <<Attribute("A", 1), Attribute("C", 1)>>}

\* The requests made of the registry.
LookupKeys ==
  {TypeInfoNew(t, a \o <<Specificity_(sp)>>) :
     t \in {"Base", "Mid", "Leaf"}, a \in AttributeRequests, sp \in SolveSpecificity}
  \cup {TypeInfoNew(t, <<Qualifier("A", 1), Specificity_(sp)>>) :
          t \in {"Base", "Mid", "Leaf"}, sp \in SolveSpecificity}

RECURSIVE CountRules(_, _)
\* How many rules the heaps of keys hold.
CountRules(rules, keys) ==
  IF keys = {} THEN 0
  ELSE LET k == CHOOSE x \in keys : TRUE
       IN  Len(rules[k]) + CountRules(rules, keys \ {k})

\* RuleRegistry::add_rule, called by a client
RegisterRule(rule) ==
  /\ CountRules(registry.rules, DOMAIN registry.rules) < MaxReg
  /\ registry' = add_rule(registry, rule)
  /\ UNCHANGED <<pending, targets, solver, memo, calls, earlier, lookup>>

\* RuleRegistry::get_rules
GetRules(key) ==
  /\ \E found \in get(registry, key) : lookup' = Some([key |-> key, result |-> found])
  /\ UNCHANGED <<pending, targets, registry, solver, memo, calls, earlier>>

InitRegistry ==
  /\ pending = <<>>
  /\ targets = {}
  /\ registry = RuleRegistryDefault
  /\ solver = None
  /\ memo = {}
  /\ calls = [c \in Threads |-> IdleCall]
  /\ earlier = None
  /\ lookup = None

NextRegistry ==
  \/ \E rule \in RulePool : RegisterRule(rule)
  \/ \E key \in LookupKeys : GetRules(key)

SpecRegistry == InitRegistry /\ [][NextRegistry]_vars

\* The rules registered under identity t.
RegisteredUnder(t) ==
  IF t \in DOMAIN registry.rules THEN Range(registry.rules[t]) ELSE {}

\* The rules a lookup returned.
Returned(l) == IF l.result.some THEN Range(l.result.val) ELSE {}

TagTypes(attributes) == DOMAIN attributes.map

\* The request's tag-types are among the rule's, and its qualifiers pass.
Matches(key, rule) ==
  /\ TagTypes(key.attributes) \subseteq TagTypes(rule.output_type.attributes)
  /\ \A i \in DOMAIN key.qualifiers.qualifiers :
       LET q == key.qualifiers.qualifiers[i]
       IN  /\ q.tag \in DOMAIN rule.output_type.attributes.map
           /\ rule.output_type.attributes.map[q.tag] = q.val

\* The identities a lookup visits, by the type index of the registry.
Visited(key) ==
  CASE key.solve_parameter.specificity = "Exact" -> {key.type_hash}
    [] key.solve_parameter.specificity = "AllowSubclass" ->
         IF key.type_hash \in DOMAIN registry.types.subclasses
         THEN registry.types.subclasses[key.type_hash] ELSE {}
    [] key.solve_parameter.specificity = "AllowSuperclass" ->
         IF key.type_hash \in DOMAIN registry.types.superclasses
         THEN Range(registry.types.superclasses[key.type_hash]) ELSE {}

(***************************************************************************)
(* C7: a lookup returns a rule registered under an identity it visits      *)
(* exactly when the tag-types of the attributes requested are all among    *)
(* the tag-types of the attributes of the rule's output (and the           *)
(* qualifiers pass); the rule with output attributes of tag-types A and B  *)
(* is returned for the requests {}, {A}, {B}, {A, B} and not for {A, C}.   *)
(***************************************************************************)
C7_SubsetOfTagTypes ==
  [][lookup' # lookup
     => LET key == lookup'.val.key
            res == Returned(lookup'.val)
        IN  /\ \A t \in Visited(key) : \A r \in RegisteredUnder(t) :
                 r \in res <=> Matches(key, r)
            /\ (/\ key.solve_parameter.specificity = "Exact"
                /\ key.type_hash = "Leaf"
                /\ key.qualifiers.qualifiers = <<>>
                /\ ABRule \in RegisteredUnder("Leaf"))
               => (ABRule \in res
                     <=> TagTypes(key.attributes) \in {{}, {"A"}, {"B"}, {"A", "B"}})]_vars

\* A request for A of another value than the rule's own was answered with
\* the rule of tag-types A and B.
C7_Witness ==
  /\ lookup.some
  /\ lookup.val.key.solve_parameter.specificity = "Exact"
  /\ lookup.val.key.attributes.map = [t \in {"A"} |-> 2]
  /\ ABRule \in Returned(lookup.val)

\* With only the rule of tag-types A and B registered, a request of Leaf for
\* A and C was answered without it.
C7_WitnessNotReturned ==
  /\ registry = RegistryOf(<<ABRule>>)
  /\ lookup.some
  /\ lookup.val.key.type_hash = "Leaf"
  /\ lookup.val.key.solve_parameter.specificity = "Exact"
  /\ TagTypes(lookup.val.key.attributes) = {"A", "C"}
  /\ lookup.val.result = Some(<<>>)

(***************************************************************************)
(* C8: with Leaf deriving from Mid and Mid from Base and one rule, for     *)
(* Leaf, registered, a lookup of Base as AllowSubclass returns that rule   *)
(* and a lookup of Base as Exact returns none; AllowSubclass returns the   *)
(* matching rules of every registered identity whose ancestor chain holds  *)
(* the identity requested, Exact those registered under that identity.     *)
(***************************************************************************)
OnlyLeaf == RegistryOf(<<LeafRule>>)

C8_SubclassLookup ==
  [][lookup' # lookup
     => LET key == lookup'.val.key
            res == Returned(lookup'.val)
        IN  /\ key.solve_parameter.specificity = "AllowSubclass"
               => res = {r \in UNION {RegisteredUnder(t) :
                                        t \in {u \in DOMAIN registry.rules :
                                                 key.type_hash \in Range(Mro(u))}} :
                           Matches(key, r)}
            /\ key.solve_parameter.specificity = "Exact"
               => res = {r \in RegisteredUnder(key.type_hash) : Matches(key, r)}
            /\ (registry = OnlyLeaf /\ key.type_hash = "Base"
                /\ TagTypes(key.attributes) = {} /\ key.qualifiers.qualifiers = <<>>)
               => /\ key.solve_parameter.specificity = "AllowSubclass"
                     => lookup'.val.result = Some(<<LeafRule>>)
                  /\ key.solve_parameter.specificity = "Exact"
                     => lookup'.val.result = None]_vars

\* With only the rule for Leaf registered, Base was looked up as
\* AllowSubclass and the rule returned.
C8_Witness ==
  /\ registry = OnlyLeaf
  /\ lookup.some
  /\ lookup.val.key.type_hash = "Base"
  /\ lookup.val.key.solve_parameter.specificity = "AllowSubclass"
  /\ lookup.val.result = Some(<<LeafRule>>)

(***************************************************************************)
(* C9: a lookup as AllowSuperclass returns the matching rules registered   *)
(* under the identity requested and under every ancestor of it, so that a  *)
(* rule for Base answers a request for Leaf.                               *)
(***************************************************************************)
OnlyBase == RegistryOf(<<BaseRule>>)

C9_SuperclassLookup ==
  [][(lookup' # lookup /\ lookup'.val.key.solve_parameter.specificity = "AllowSuperclass")
     => LET key == lookup'.val.key
            res == Returned(lookup'.val)
        IN  /\ res = {r \in UNION {RegisteredUnder(t) : t \in Range(Mro(key.type_hash))} :
                        Matches(key, r)}
            /\ (registry = OnlyBase /\ key.type_hash = "Leaf"
                /\ TagTypes(key.attributes) = {} /\ key.qualifiers.qualifiers = <<>>)
               => lookup'.val.result = Some(<<BaseRule>>)]_vars

\* What the code does instead: the ancestors are those recorded when the
\* identity requested was itself registered as an output type; for an
\* identity never registered the lookup returns None.
C9_SuperclassOfRegistered ==
  [][(lookup' # lookup /\ lookup'.val.key.solve_parameter.specificity = "AllowSuperclass")
     => LET key == lookup'.val.key
            res == Returned(lookup'.val)
        IN  IF key.type_hash \in DOMAIN registry.rules
            THEN res = {r \in UNION {RegisteredUnder(t) : t \in Range(Mro(key.type_hash))} :
                          Matches(key, r)}
            ELSE lookup'.val.result = None]_vars

\* With only the rule for Base registered, Leaf was looked up as
\* AllowSuperclass and nothing returned.
C9_Witness ==
  /\ registry = OnlyBase
  /\ lookup.some
  /\ lookup.val.key.type_hash = "Leaf"
  /\ lookup.val.key.solve_parameter.specificity = "AllowSuperclass"
  /\ lookup.val.result = None

(***************************************************************************)
(* C10: failure is local.  A solve_for that returns None to a rule's       *)
(* dependency makes the caller leave that rule, with nothing contributed,  *)
(* for the next one; a rule contributes only its own Solutions; and after  *)
(* the loop the solve_for returns None exactly when nothing was            *)
(* contributed or the Exclusive policy rejects, and otherwise the          *)
(* contributed Solutions as the cardinality narrows them: all of them as   *)
(* Exhaustive or Exclusive, the first of them as Single.                   *)
(***************************************************************************)
\* The innermost solve_for of thread c is about to return None.
FailsNow(c) ==
  \/ /\ AtEnter(c)
     /\ ~read_memo(memo, Top(calls[c]).target).some
     /\ \/ push_stack(calls[c].execution_stack, Top(calls[c]).name, Top(calls[c]).target)
             # "pushed"
        \/ get(solver.val, Top(calls[c]).target) = {None}
  \/ /\ AfterLoop(c)
     /\ \/ Top(calls[c]).solutions = <<>>
        \/ /\ Top(calls[c]).target.solve_parameter.cardinality = "Exclusive"
           /\ Len(Top(calls[c]).solutions) > 1

\* A failing solve_for hands None to its caller, which goes on to its next
\* rule; a frame that stays gains Solutions of its current rule only.
FailureStaysLocal(c) ==
  /\ FailsNow(c) => HandsNone(c)
  /\ (InLoop(c) /\ Len(calls'[c].frames) = Len(calls[c].frames))
     => LET old == Top(calls[c]).solutions
            new == Top(calls'[c]).solutions
        IN  /\ Len(new) >= Len(old)
            /\ SubSeq(new, 1, Len(old)) = old
            /\ \A i \in (Len(old) + 1)..Len(new) : new[i].rule = CurrentRule(Top(calls[c]))

\* The Solvers over TwoRules whose rule H has a dependency that fails while
\* its rule L has none that does.
HFailsOnly ==
  {RuleRegistryCloneRef(RegistryOf(TwoRules(h, l))) :
     h \in {"missing", "cycle", "ambiguous"}, l \in {"none", "present"}}

\* Such a Solver answers "T", from the registry, with the Solution of L.
SurvivorAnswers ==
  \A c \in Threads :
    (/\ solver.some
     /\ solver.val \in HFailsOnly
     /\ Done(c)
     /\ calls[c].lookups > 0)
    => /\ calls[c].result.ok
       /\ Len(calls[c].result.solutions) = 1
       /\ calls[c].result.solutions[1].rule.canonical_name = "L"

\* As stated: what is returned is every contributed Solution.
C10_AsStated ==
  /\ []SurvivorAnswers
  /\ [][\A c \in Threads :
          (Running(c) /\ calls'[c] # calls[c])
          => /\ FailureStaysLocal(c)
             /\ (AfterLoop(c) /\ ~FailsNow(c)) => HandsSome(c, Top(calls[c]).solutions)]_vars

C10_FailureIsLocal ==
  /\ []SurvivorAnswers
  /\ [][\A c \in Threads :
          (Running(c) /\ calls'[c] # calls[c])
          => /\ FailureStaysLocal(c)
             /\ (AfterLoop(c) /\ ~FailsNow(c))
                => HandsSome(c, IF Top(calls[c]).target.solve_parameter.cardinality = "Single"
                                THEN <<Top(calls[c]).solutions[1]>>
                                ELSE Top(calls[c]).solutions)]_vars

\* Rule H was dropped for a dependency that failed, and the solve returned
\* the Solution of rule L, whose dependency resolved.
C10_Witness ==
  \E c \in Threads :
    /\ solver = Some(RuleRegistryCloneRef(RegistryOf(TwoRules("missing", "present"))))
    /\ Done(c)
    /\ calls[c].lookups > 0
    /\ calls[c].result.ok
    /\ Len(calls[c].result.solutions) = 1
    /\ calls[c].result.solutions[1].rule.canonical_name = "L"
    /\ calls[c].result.solutions[1].args.args # <<>>

(***************************************************************************)
(* C11: every (stack, reason) pair a solve records stays recorded, in the  *)
(* order of recording, until the solve returns; a solve that fails reports *)
(* all of them, those of branches other than the last one included; a      *)
(* solve that succeeds reports its Solutions and none of them.             *)
(***************************************************************************)
IsPrefix(s, t) == Len(s) <= Len(t) /\ SubSeq(t, 1, Len(s)) = s

C11_AllReasonsReported ==
  [][\A c \in Threads :
       (Running(c) /\ calls'[c] # calls[c])
       => /\ IsPrefix(calls[c].errors, calls'[c].errors)
          /\ calls'[c].status = "done"
             => IF calls'[c].result.ok
                THEN calls'[c].result.errors = <<>>
                ELSE /\ calls'[c].result.errors = calls'[c].errors
                     /\ calls'[c].result.solutions = <<>>]_vars

\* A solve failed with three reasons, two of them recorded under different
\* dependencies of different rules.
C11_Witness ==
  \E c \in Threads :
    /\ Done(c)
    /\ ~calls[c].result.ok
    /\ Len(calls[c].result.errors) >= 3
    /\ \E i, j \in DOMAIN calls[c].result.errors :
         /\ i < j
         /\ Len(calls[c].result.errors[i].stack) = 2
         /\ Len(calls[c].result.errors[j].stack) = 2
         /\ calls[c].result.errors[i].stack[2].name # calls[c].result.errors[j].stack[2].name

\* A solve succeeded although a branch of it had recorded a reason.
C11_WitnessSuccess ==
  \E c \in Threads :
    /\ Done(c)
    /\ calls[c].result.ok
    /\ calls[c].errors # <<>>
    /\ calls[c].result.errors = <<>>

(***************************************************************************)
(* C12: a rule whose dependency names are not unique is not registered:    *)
(* no heap of the registry ever holds one.                                 *)
(***************************************************************************)
UniqueNames(rule) ==
  \A i, j \in DOMAIN rule.dependencies :
    i # j => rule.dependencies[i].name # rule.dependencies[j].name

C12_DuplicateNamesRejected ==
  \A t \in DOMAIN registry.rules : \A r \in Range(registry.rules[t]) : UniqueNames(r)

\* The rule that names "a" twice is registered, and its type is in the index.
C12_Witness ==
  /\ DupRule \in RegisteredUnder("Leaf")
  /\ "Leaf" \in DOMAIN registry.types.superclasses
  /\ ~UniqueNames(DupRule)

(***************************************************************************)
(* C13: two TypeInfos are equal, and hash equally, exactly when their      *)
(* type, their attributes and their qualifiers are equal (each by its own  *)
(* equality); the specificity and the cardinality take no part.  So a      *)
(* solve_for whose target differs from a key of the memo only in them is   *)
(* answered from the memo, and one whose target differs from a target on   *)
(* the stack only in them runs into the cycle check.                       *)
(***************************************************************************)
\* The keys of type t compared: with and without an attribute, the attribute
\* of two values, with and without a qualifier, of every solve parameter.
KeyVariants(t) ==
  {TypeInfoNew(t, a \o q \o <<Cardinality_(ca), Specificity_(sp)>>) :
     a \in {<<>>, <<Attribute("A", 1)>>, <<Attribute("A", 2)>>},
     q \in {<<>>, <<Qualifier("A", 1)>>},
     ca \in SolveCardinality, sp \in SolveSpecificity}

\* a and b agree in everything but the solve parameters.
SameButParameters(a, b) ==
  /\ a.type_hash = b.type_hash
  /\ MetadataSetEq(a.attributes, b.attributes)
  /\ QualifiersEq(a.qualifiers, b.qualifiers)

C13_EqualityIgnoresParameters ==
  /\ [](\A b \in targets : \A a \in KeyVariants(b.type_hash) \cup KeyVariants("U") :
          /\ TypeInfoEq(a, b) <=> SameButParameters(a, b)
          /\ TypeInfoEq(a, b) <=> TypeInfoHash(a) = TypeInfoHash(b))
  /\ [][\A c \in Threads :
          (AtEnter(c) /\ calls'[c] # calls[c])
          => LET f == Top(calls[c])
             IN  /\ \A e \in memo : SameButParameters(e.key, f.target) => HandsSome(c, e.val)
                 /\ (/\ \A e \in memo : ~SameButParameters(e.key, f.target)
                     /\ Len(calls[c].execution_stack) <= DepthLimit
                     /\ \E i \in DOMAIN calls[c].execution_stack :
                          SameButParameters(calls[c].execution_stack[i].target, f.target))
                    => /\ HandsNone(c)
                       /\ Len(calls'[c].errors) = Len(calls[c].errors) + 1
                       /\ Last(calls'[c].errors).reason = CyclicDependency]_vars

\* A solve was answered from a memo entry whose key has another cardinality
\* than the target.
C13_Witness ==
  \E c \in Threads :
    /\ Done(c)
    /\ calls[c].lookups = 0
    /\ calls[c].result.ok
    /\ \E e \in memo :
         /\ TypeInfoEq(e.key, calls[c].target)
         /\ e.key.solve_parameter # calls[c].target.solve_parameter
         /\ calls[c].result.solutions = e.val

\* A cycle was recorded between a target and a dependency of the same type
\* and another cardinality.
C13_WitnessCycle ==
  \E c \in Threads : \E i \in DOMAIN calls[c].errors :
    LET e == calls[c].errors[i]
    IN  /\ e.reason = CyclicDependency
        /\ Len(e.stack) = 2
        /\ e.stack[1].target.solve_parameter # e.stack[2].target.solve_parameter

(***************************************************************************)
(* The specification of one Solver shared by the threads: a solve_for may  *)
(* be called while another runs, and the calls interleave step by step.    *)
(* read_memo and save_memo each hold the RwLock of the memo for their      *)
(* whole body, so each is one step.                                        *)
(***************************************************************************)
\* Solver::solve_for called on thread c, whatever the other threads do.
SolveConcurrently(c, target) ==
  /\ solver.some
  /\ ~Running(c)
  /\ calls' = [calls EXCEPT ![c] =
                 [IdleCall EXCEPT !.status = "running", !.target = target,
                                  !.frames = <<EnterFrame("__root__", target)>>]]
  /\ UNCHANGED <<pending, targets, registry, solver, memo, earlier, lookup>>

\* What is registered for the shared Solver, and what is requested of it.
SharedScenarios ==
  {Scenario(TwoRules("cycle", "present"), RequestsOfT),
   Scenario(TwoRules("missing", "ambiguous"), RequestsOfT),
   Scenario(Cycle(MaxCycle), {Plain("K1")}),
   Scenario(Mutual, RequestsOfMutual)}

InitShared ==
  /\ \E s \in SharedScenarios : pending = s.rules /\ targets = s.targets
  /\ registry = RuleRegistryDefault
  /\ solver = None
  /\ memo = {}
  /\ calls = [c \in Threads |-> IdleCall]
  /\ earlier = None
  /\ lookup = None

NextShared ==
  \/ AddRule
  \/ NewSolver
  \/ \E c \in Threads : \E t \in targets : SolveConcurrently(c, t)
  \/ \E c \in Threads : Step(c)

SpecShared == InitShared /\ [][NextShared]_vars

\* What the cardinality of target leaves of an aggregate it lets through.
Narrowed(target, solutions) ==
  IF target.solve_parameter.cardinality = "Single" THEN <<solutions[1]>> ELSE solutions

(***************************************************************************)
(* C14: under every interleaving of the solve_for calls of the threads on  *)
(* one Solver, a step that reads the memo leaves it as it is, and the memo *)
(* changes only in the step in which a solve_for returns Solutions, after  *)
(* its loop over the rules and its cardinality policy: the entry of its    *)
(* target then holds exactly the sequence returned, every other entry is   *)
(* as before.  So an entry read is a sequence some solve_for returned.     *)
(***************************************************************************)
C14_MemoWrittenWhole ==
  [][/\ \A c \in Threads : (AtEnter(c) /\ calls'[c] # calls[c]) => memo' = memo
     /\ \A c \in Threads :
          (/\ AfterLoop(c)
           /\ calls'[c] # calls[c]
           /\ Top(calls[c]).solutions # <<>>
           /\ ~(/\ Top(calls[c]).target.solve_parameter.cardinality = "Exclusive"
                /\ Len(Top(calls[c]).solutions) > 1))
          => LET f == Top(calls[c])
             IN  /\ HandsSome(c, Narrowed(f.target, f.solutions))
                 /\ \E e \in memo' :
                      /\ SameButParameters(e.key, f.target)
                      /\ e.val = Narrowed(f.target, f.solutions)
                 /\ \A e \in memo' :
                      ~SameButParameters(e.key, f.target) => e \in memo
                 /\ \A e \in memo :
                      ~SameButParameters(e.key, f.target) => e \in memo'
                 /\ Cardinality({e \in memo' : SameButParameters(e.key, f.target)}) = 1
     /\ memo' # memo
        => \E c \in Threads :
             /\ AfterLoop(c)
             /\ calls'[c] # calls[c]
             /\ calls'[c].errors = calls[c].errors]_vars

\* Two threads both missed the memo for the same key, both expanded it and
\* both returned Solutions.
C14_Witness ==
  /\ Done(1) /\ Done(2)
  /\ TypeInfoEq(calls[1].target, calls[2].target)
  /\ calls[1].lookups > 0 /\ calls[2].lookups > 0
  /\ calls[1].result.ok /\ calls[2].result.ok
  /\ calls[1].target.solve_parameter # calls[2].target.solve_parameter

(***************************************************************************)
(* C15: no Solution a solve returns, and none the memo holds, has on a     *)
(* path from its root an application of a rule for a key below an          *)
(* application of the same rule for the same key.  The key of the root is  *)
(* the target; the key of an argument is the type of the dependency it     *)
(* binds.                                                                  *)
(***************************************************************************)
\* The type of the dependency of rule that is called name.
DependencyKey(rule, name) ==
  LET i == CHOOSE k \in DOMAIN rule.dependencies : rule.dependencies[k].name = name
  IN  rule.dependencies[i].typing

RECURSIVE NoNesting(_, _, _)
\* No application below solution, itself included, repeats one of above or
\* one further up on its own path.
NoNesting(solution, key, above) ==
  LET node == <<RuleHash(solution.rule), TypeInfoHash(key)>>
  IN  /\ node \notin above
      /\ \A k \in DOMAIN solution.args.args :
           NoNesting(solution.args.args[k].solution,
                     DependencyKey(solution.rule, solution.args.args[k].name),
                     above \cup {node})

C15_NoCycleInSolutions ==
  /\ \A c \in Threads :
       (Done(c) /\ calls[c].result.ok)
       => \A i \in DOMAIN calls[c].result.solutions :
            NoNesting(calls[c].result.solutions[i], calls[c].target, {})
  /\ \A e \in memo : \A i \in DOMAIN e.val : NoNesting(e.val[i], e.key, {})

\* A solve over rules of which one requires its own output returned a
\* Solution with arguments after the cycle was cut.
C15_Witness ==
  \E c \in Threads :
    /\ Done(c)
    /\ calls[c].result.ok
    /\ HasReason(calls[c].errors, "CyclicDependency")
    /\ \E i \in DOMAIN calls[c].result.solutions :
         calls[c].result.solutions[i].args.args # <<>>

(***************************************************************************)
(* C16: whatever was registered and in whatever order, the descendant set  *)
(* of every identity in the ancestor chain of a registered type, the type  *)
(* itself included, contains that type, whether that identity was          *)
(* registered itself or not; and a registration removes nothing from an    *)
(* ancestor list or a descendant set.                                      *)
(***************************************************************************)
\* The types registered as the output type of a rule.
RegisteredTypes == DOMAIN registry.types.superclasses

DescendantsComplete ==
  \A b \in RegisteredTypes :
    /\ get_superclasses(registry.types, b) = Some(Mro(b))
    /\ \A a \in Range(Mro(b)) :
         LET subclasses == get_subclasses(registry.types, a)
         IN  subclasses.some /\ b \in subclasses.val

IndexOnlyGrows ==
  /\ \A b \in DOMAIN registry.types.superclasses :
       /\ b \in DOMAIN registry'.types.superclasses
       /\ Range(registry.types.superclasses[b])
            \subseteq Range(registry'.types.superclasses[b])
  /\ \A a \in DOMAIN registry.types.subclasses :
       /\ a \in DOMAIN registry'.types.subclasses
       /\ registry.types.subclasses[a] \subseteq registry'.types.subclasses[a]

C16_DescendantsComplete == []DescendantsComplete /\ [][IndexOnlyGrows]_vars

\* Leaf and its ancestor Base are registered, its ancestor Mid is not, and
\* both of them list Leaf.
C16_Witness ==
  /\ {"Leaf", "Base"} \subseteq RegisteredTypes
  /\ "Mid" \notin RegisteredTypes
  /\ get_subclasses(registry.types, "Mid") = Some({"Leaf"})
  /\ get_subclasses(registry.types, "Base") = Some({"Leaf", "Base"})

(***************************************************************************)
(* C17: of the rules a lookup returns, those of one identity are in        *)
(* priority-descending order, the highest first, also when three or more   *)
(* are registered under the identity and when the filter removed some.     *)
(***************************************************************************)
\* The rules are, identity by identity, in priority-descending order.
PriorityDescending(rules) ==
  \A i, j \in DOMAIN rules :
    (i < j /\ rules[i].output_type.type_hash = rules[j].output_type.type_hash)
    => rules[i].priority >= rules[j].priority

C17_PriorityDescending ==
  (lookup.some /\ lookup.val.result.some) => PriorityDescending(lookup.val.result.val)

\* Three rules of priorities 1, 2 and 3 were registered for Leaf in that
\* order, and the lookup of exactly Leaf returned them as 3, 1, 2.
C17_Witness ==
  /\ "Leaf" \in DOMAIN registry.rules
  /\ registry.rules["Leaf"] = <<DupRule, LeafRule, ABRule>>
  /\ lookup.some
  /\ lookup.val.key = TypeInfoNew("Leaf", <<Specificity_("Exact")>>)
  /\ lookup.val.result = Some(<<DupRule, LeafRule, ABRule>>)

\* What the heap does keep: the first rule of an unfiltered lookup of exactly
\* one identity has the highest priority registered under it.
C17_FirstIsHighest ==
  [][(/\ lookup' # lookup
      /\ lookup'.val.result.some
      /\ lookup'.val.key.solve_parameter.specificity = "Exact"
      /\ DOMAIN lookup'.val.key.attributes.map = {}
      /\ lookup'.val.key.qualifiers.qualifiers = <<>>)
     => \A r \in RegisteredUnder(lookup'.val.key.type_hash) :
          r.priority <= lookup'.val.result.val[1].priority]_vars

(***************************************************************************)
(* C18: a solve of Single cardinality that looked its rules up keeps one   *)
(* Solution, that of the highest-priority rule among those that produced   *)
(* one, also when the rule of the highest priority was abandoned for a     *)
(* dependency that failed; its arguments are the first Solution of each    *)
(* dependency.  A rule without dependencies always produces a Solution.    *)
(***************************************************************************)
\* The rules the Solver holds under the identity of target.
CandidatesOf(target) ==
  IF solver.some /\ target.type_hash \in DOMAIN solver.val.rules
  THEN Range(solver.val.rules[target.type_hash])
  ELSE {}

\* Every argument of solution is the first Solution the memo holds for the
\* dependency it binds.
FirstOfEachDependency(solution) ==
  \A k \in DOMAIN solution.args.args :
    \E e \in memo :
      /\ TypeInfoEq(e.key, DependencyKey(solution.rule, solution.args.args[k].name))
      /\ solution.args.args[k].solution = e.val[1]

C18_SingleKeepsHighestRemaining ==
  \A c \in Threads :
    (/\ Done(c)
     /\ calls[c].result.ok
     /\ calls[c].lookups > 0
     /\ calls[c].target.solve_parameter.cardinality = "Single")
    => /\ Len(calls[c].result.solutions) = 1
       /\ FirstOfEachDependency(calls[c].result.solutions[1])
       /\ \A r \in CandidatesOf(calls[c].target) :
            r.dependencies = <<>> => r.priority <= calls[c].result.solutions[1].rule.priority

\* Rules of priorities 1, 2 and 3 were registered for "T" in that order, the
\* rule of priority 3 was abandoned for its missing dependency, and the
\* Single solve kept the rule of priority 1 although that of priority 2
\* produces a Solution as well.
C18_Witness ==
  \E c \in Threads :
    /\ SolverOver(AbandonedTop(<<1, 2, 3>>))
    /\ Done(c)
    /\ calls[c].result.ok
    /\ calls[c].target.solve_parameter.cardinality = "Single"
    /\ HasReason(calls[c].errors, "NoSolution")
    /\ calls[c].result.solutions[1].rule.priority = 1
    /\ \E r \in CandidatesOf(calls[c].target) : r.priority = 2 /\ r.dependencies = <<>>

(***************************************************************************)
(* C19: the subset test of a lookup compares the values: no rule returned  *)
(* holds, for a tag-type of the request's attributes, another value than   *)
(* the request does.                                                       *)
(***************************************************************************)
\* Wherever rule has an attribute of a tag-type that requested has, the
\* values agree.
ValuesAgree(requested, rule) ==
  \A k \in TagTypes(requested) :
    k \in TagTypes(rule.output_type.attributes)
    => rule.output_type.attributes.map[k] = requested.map[k]

C19_SubsetComparesValues ==
  lookup.some
  => \A r \in Returned(lookup.val) : ValuesAgree(lookup.val.key.attributes, r)

\* A request of Mid for A of value 1 was answered with the rule of Mid whose
\* attribute A has value 2.
C19_Witness ==
  /\ lookup.some
  /\ lookup.val.key.type_hash = "Mid"
  /\ lookup.val.key.solve_parameter.specificity = "Exact"
  /\ lookup.val.key.attributes.map = [t \in {"A"} |-> 1]
  /\ lookup.val.result = Some(<<MidRule>>)

(***************************************************************************)
(* C20: for an identity that was never registered as the output type of a  *)
(* rule, get_superclasses returns None, and get_subclasses returns the     *)
(* registered types that have the identity in their ancestor chain: None   *)
(* only when there is no such type.                                        *)
(***************************************************************************)
\* The identities asked about.
Identities == {"Leaf", "Mid", "Base", "object", "Other"}

\* The registered types that have a in their ancestor chain.
RegisteredDescendants(a) == {b \in RegisteredTypes : a \in Range(Mro(b))}

C20_NeverRegistered ==
  \A a \in Identities \ RegisteredTypes :
    /\ get_superclasses(registry.types, a) = None
    /\ get_subclasses(registry.types, a)
         = IF RegisteredDescendants(a) = {} THEN None ELSE Some(RegisteredDescendants(a))

\* As stated: both are None or empty for an identity never registered.
C20_AsStated ==
  \A a \in Identities \ RegisteredTypes :
    /\ get_superclasses(registry.types, a) \in {None, Some(<<>>)}
    /\ get_subclasses(registry.types, a) \in {None, Some({})}

\* Leaf is registered and Mid is not: Mid has no ancestors recorded, and its
\* descendants are Leaf.
C20_Witness ==
  /\ "Leaf" \in RegisteredTypes
  /\ "Mid" \notin RegisteredTypes
  /\ get_superclasses(registry.types, "Mid") = None
  /\ get_subclasses(registry.types, "Mid") = Some({"Leaf"})
  /\ get_subclasses(registry.types, "Other") = None

(***************************************************************************)
(* C21: a memo hit ignores the policy of the request.  When the memo holds *)
(* an entry whose key agrees with the target in identity, attributes and   *)
(* qualifiers, whatever its specificity and cardinality, solve_for (at the *)
(* root or for a dependency) hands the stored sequence on as it is: the    *)
(* registry is not asked, nothing is pushed or recorded, the memo stays,   *)
(* and the cardinality of the target is not applied.                       *)
(***************************************************************************)
C21_MemoHitIgnoresPolicy ==
  [][\A c \in Threads :
       (AtEnter(c) /\ calls'[c] # calls[c])
       => \A e \in memo :
            SameButParameters(e.key, Top(calls[c]).target)
            => /\ HandsSome(c, e.val)
               /\ memo' = memo
               /\ calls'[c].lookups = calls[c].lookups
               /\ calls'[c].pushes = calls[c].pushes
               /\ calls'[c].execution_stack = calls[c].execution_stack
               /\ calls'[c].errors = calls[c].errors]_vars

\* A solve requested as Single or Exclusive returned, without a lookup, the
\* two Solutions cached under an Exhaustive key.
C21_Witness ==
  \E c \in Threads :
    /\ Done(c)
    /\ calls[c].lookups = 0
    /\ calls[c].result.ok
    /\ calls[c].target.solve_parameter.cardinality = "Single"
    /\ Len(calls[c].result.solutions) = 2
    /\ \E e \in memo :
         /\ TypeInfoEq(e.key, calls[c].target)
         /\ e.key.solve_parameter.cardinality = "Exhaustive"
         /\ e.val = calls[c].result.solutions

\* The request of Base and its subclasses was answered, without a lookup, with
\* what was cached for exactly Base: the rule for Leaf is not among it.
C21_WitnessSpecificity ==
  \E c \in Threads :
    /\ SolverOver(Hierarchy)
    /\ Done(c)
    /\ calls[c].lookups = 0
    /\ calls[c].target.solve_parameter.specificity = "AllowSubclass"
    /\ calls[c].result.ok
    /\ Len(calls[c].result.solutions) = 1
    /\ \E e \in memo : e.key.solve_parameter.specificity = "Exact"

\* A dependency requested as Exhaustive was answered with the one Solution
\* cached under a Single key, although three rules produce its type.
C21_WitnessDependency ==
  \E c \in Threads :
    /\ SolverOver(Combination(3, 1, FALSE))
    /\ Done(c)
    /\ calls[c].result.ok
    /\ calls[c].target = WithCardinality("T", "Exhaustive")
    /\ Len(calls[c].result.solutions) = 1
    /\ \E e \in memo :
         /\ e.key = WithCardinality("TA", "Single")
         /\ Len(e.val) = 1

(***************************************************************************)
(* C22: every solve_for leaves the execution stack as it found it, on      *)
(* every exit: the stack always holds exactly the steps of the solve_for   *)
(* calls that are inside their loop over the rules, so that when one       *)
(* returns the stack is what it was when that one was entered; and it is   *)
(* empty when the top-level solve has returned.                            *)
(***************************************************************************)
\* The steps of the first n frames of call.
StepsOf(call, n) ==
  [i \in 1..n |-> ExecutionStep(call.frames[i].name, call.frames[i].target)]

\* The frames below the innermost are inside their loops, and the stack holds
\* their steps, and that of the innermost once it is inside its loop.
StackIsFrames(c) ==
  LET call == calls[c]
      n    == Len(call.frames)
  IN  /\ \A i \in 1..(n - 1) : call.frames[i].pc = "loop"
      /\ call.execution_stack =
           IF n = 0 THEN <<>>
           ELSE IF call.frames[n].pc = "loop" THEN StepsOf(call, n)
           ELSE StepsOf(call, n - 1)

\* In a step in which the innermost solve_for of thread c returns, the stack
\* is afterwards what it was when that solve_for was entered.
StackRestored(c) ==
  (Running(c) /\ Len(calls'[c].frames) = Len(calls[c].frames) - 1)
  => calls'[c].execution_stack = StepsOf(calls[c], Len(calls[c].frames) - 1)

C22_StackRestored ==
  /\ [](\A c \in Threads :
          /\ StackIsFrames(c)
          /\ Done(c) => calls[c].execution_stack = <<>>)
  /\ [][\A c \in Threads : StackRestored(c)]_vars

\* A top-level solve returned with an empty stack after a cycle was cut two
\* levels down and the target was left without a Solution.
C22_Witness ==
  \E c \in Threads :
    /\ Done(c)
    /\ calls[c].pushes >= 3
    /\ HasReason(calls[c].errors, "CyclicDependency")
    /\ HasReason(calls[c].errors, "NoSolution")
    /\ calls[c].execution_stack = <<>>

\* The other exits: the depth guard, the Exclusive policy, the memo and
\* success each let a top-level solve return with an empty stack.
C22_WitnessDepth ==
  \E c \in Threads :
    /\ SolverOver(Chain(MaxChain))
    /\ Done(c)
    /\ ~calls[c].result.ok
    /\ calls[c].pushes = DepthLimit + 1
    /\ calls[c].execution_stack = <<>>

C22_WitnessNotExclusive ==
  \E c \in Threads :
    /\ Done(c)
    /\ HasReason(calls[c].errors, "NotExclusive")
    /\ calls[c].execution_stack = <<>>

C22_WitnessSuccess ==
  \E c \in Threads :
    /\ Done(c)
    /\ calls[c].result.ok
    /\ calls[c].pushes >= 2
    /\ calls[c].execution_stack = <<>>

(***************************************************************************)
(* C23: a solve_for that meets the depth guard bails out silently: it      *)
(* pushes no step, records no reason, asks the registry nothing, leaves    *)
(* the memo as it is and returns None.  What is recorded for the branch is *)
(* the NoSolution of each of its callers: over a chain longer than the     *)
(* guard admits, the solve of its first type fails with one NoSolution per *)
(* solve_for that had pushed, and with nothing else.                       *)
(***************************************************************************)
\* The innermost solve_for of thread c is at the depth guard.
AtDepthGuard(c) ==
  /\ AtEnter(c)
  /\ ~read_memo(memo, Top(calls[c]).target).some
  /\ Len(calls[c].execution_stack) > DepthLimit

SilentBail(c) ==
  (AtDepthGuard(c) /\ calls'[c] # calls[c])
  => /\ HandsNone(c)
     /\ calls'[c].errors = calls[c].errors
     /\ calls'[c].execution_stack = calls[c].execution_stack
     /\ calls'[c].pushes = calls[c].pushes
     /\ calls'[c].lookups = calls[c].lookups
     /\ memo' = memo

\* The reasons of a solve that was cut by the guard alone: one NoSolution per
\* caller, innermost first, each with the stack of that caller.
CallersOnly(errors) ==
  /\ Len(errors) = DepthLimit + 1
  /\ \A i \in DOMAIN errors :
       /\ errors[i].reason = NoSolution
       /\ Len(errors[i].stack) = DepthLimit + 2 - i

C23_DepthBailIsSilent ==
  /\ [][\A c \in Threads : SilentBail(c)]_vars
  /\ [](\A c \in Threads :
          (/\ SolverOver(Chain(MaxChain))
           /\ Done(c)
           /\ calls[c].target = Plain("K1")
           /\ calls[c].lookups > 0
           /\ ~calls[c].result.ok)
          => CallersOnly(calls[c].result.errors))

\* The solve of the first type of the longest chain was cut by the guard and
\* failed, with the memo left empty.
C23_Witness ==
  \E c \in Threads :
    /\ SolverOver(Chain(MaxChain))
    /\ Done(c)
    /\ calls[c].target = Plain("K1")
    /\ ~calls[c].result.ok
    /\ calls[c].resolves = DepthLimit + 1
    /\ calls[c].lookups = DepthLimit + 1
    /\ Len(calls[c].result.errors) = DepthLimit + 1
    /\ memo = {}

(***************************************************************************)
(* C24: the depth bound is 5: whenever solve_for asks the registry for the *)
(* rules of its target, the execution stack, the step of that target       *)
(* included, holds at most 5 entries.                                      *)
(***************************************************************************)
\* In this step thread c asks the registry (get), with its own step pushed.
AsksRegistry(c) == calls'[c].lookups = calls[c].lookups + 1

C24_DepthBoundIsFive ==
  [][\A c \in Threads :
       AsksRegistry(c) => Len(calls[c].execution_stack) + 1 <= DepthLimit]_vars

\* What the guard does enforce: one entry more.
C24_DepthBoundIsSix ==
  [][\A c \in Threads :
       AsksRegistry(c) => Len(calls[c].execution_stack) + 1 <= DepthLimit + 1]_vars

\* A chain of six types was solved to its end: the rules of the sixth were
\* looked up with six entries on the stack, and the solve succeeded.
C24_Witness ==
  \E c \in Threads :
    /\ SolverOver(Chain(DepthLimit + 1))
    /\ Running(c)
    /\ Len(calls[c].execution_stack) = DepthLimit + 1
    /\ Top(calls[c]).pc = "loop"
    /\ Top(calls[c]).rules # <<>>

(***************************************************************************)
(* C25: the stack recorded with a CyclicDependency is a copy of the whole  *)
(* execution stack at the detection: the steps from ("__root__", the root  *)
(* target) down to the caller, in order, one of them with a target equal   *)
(* to the target entered again, and last the step entered again itself;    *)
(* the live stack is without that last step again when solve_for returns.  *)
(***************************************************************************)
\* In this step thread c records a CyclicDependency.
RecordsCyclic(c) ==
  /\ Running(c)
  /\ Len(calls'[c].errors) = Len(calls[c].errors) + 1
  /\ calls'[c].errors[Len(calls'[c].errors)].reason = CyclicDependency

FullSnapshot(c) ==
  LET call     == calls[c]
      n        == Len(call.frames)
      snapshot == calls'[c].errors[Len(calls'[c].errors)].stack
  IN  /\ snapshot = call.execution_stack
                      \o <<ExecutionStep(call.frames[n].name, call.frames[n].target)>>
      /\ snapshot = StepsOf(call, n)
      /\ snapshot[1] = ExecutionStep("__root__", call.target)
      /\ \E i \in 1..(n - 1) : TypeInfoEq(snapshot[i].target, snapshot[n].target)
      /\ calls'[c].execution_stack = call.execution_stack
      /\ HandsNone(c)

C25_CycleSnapshotIsFull ==
  [][\A c \in Threads : RecordsCyclic(c) => FullSnapshot(c)]_vars

\* A cycle of three types was cut: the snapshot holds four steps, the first
\* that of the root, the last of the same target as the first.
C25_Witness ==
  \E c \in Threads : \E i \in DOMAIN calls[c].errors :
    LET e == calls[c].errors[i]
    IN  /\ Done(c)
        /\ calls[c].execution_stack = <<>>
        /\ e.reason = CyclicDependency
        /\ Len(e.stack) = 4
        /\ e.stack[1].name = "__root__"
        /\ TypeInfoEq(e.stack[1].target, e.stack[4].target)

(***************************************************************************)
(* C26: the memo holds only what succeeded, after the policy.  A solve_for *)
(* that returns None leaves the memo as it is and records one reason of    *)
(* its own where one is due: CyclicDependency for a target met again,      *)
(* NoSolution for an empty lookup or an empty aggregate, NotExclusive with *)
(* the aggregate for a rejected one, nothing at the depth guard.  A        *)
(* solve_for that returns Solutions has stored under its target the        *)
(* sequence it returns.  Every memo entry is a non-empty sequence.         *)
(***************************************************************************)
\* The reasons a failing solve_for of thread c records, given where it is.
ReasonsDue(c) ==
  LET f == Top(calls[c])
  IN  IF f.pc = "enter"
      THEN CASE push_stack(calls[c].execution_stack, f.name, f.target) = "depth"  -> <<>>
             [] push_stack(calls[c].execution_stack, f.name, f.target) = "cyclic" ->
                  <<CyclicDependency>>
             [] OTHER -> <<NoSolution>>
      ELSE IF f.solutions = <<>> THEN <<NoSolution>> ELSE <<NotExclusive(f.solutions)>>

FailureLeavesMemo(c) ==
  (FailsNow(c) /\ calls'[c] # calls[c])
  => /\ memo' = memo
     /\ HandsNone(c)
     /\ Len(calls'[c].errors) = Len(calls[c].errors) + Len(ReasonsDue(c))
     /\ \A i \in DOMAIN calls[c].errors : calls'[c].errors[i] = calls[c].errors[i]
     /\ ReasonsDue(c) # <<>> => Last(calls'[c].errors).reason = ReasonsDue(c)[1]

SuccessIsStored(c) ==
  (/\ AfterLoop(c)
   /\ ~FailsNow(c)
   /\ calls'[c] # calls[c])
  => LET f    == Top(calls[c])
         kept == Narrowed(f.target, f.solutions)
     IN  /\ HandsSome(c, kept)
         /\ read_memo(memo', f.target) = Some(kept)
         /\ calls'[c].errors = calls[c].errors

C26_MemoHoldsSuccessOnly ==
  /\ [](\A e \in memo : e.val # <<>>)
  /\ [][\A c \in Threads : FailureLeavesMemo(c) /\ SuccessIsStored(c)]_vars

\* A solve failed with reasons of all three kinds while the memo kept the
\* entry of the one dependency that had succeeded, and nothing else.
C26_Witness ==
  \E c \in Threads :
    /\ Done(c)
    /\ ~calls[c].result.ok
    /\ HasReason(calls[c].result.errors, "NotExclusive")
    /\ HasReason(calls[c].result.errors, "NoSolution")
    /\ Cardinality(memo) = 1
    /\ \A e \in memo : ~TypeInfoEq(e.key, calls[c].target) /\ e.val # <<>>

(***************************************************************************)
(* C27: equality of Solutions is structural over the whole argument        *)
(* collection: two Solutions of one rule that the expansion produced are   *)
(* equal if and only if they bind equal Solutions to every dependency      *)
(* name.                                                                   *)
(***************************************************************************)
\* The Solutions a solve returned are equal exactly when they bind the same.
StructuralEquality(solutions) ==
  \A i, j \in DOMAIN solutions :
    RuleEq(solutions[i].rule, solutions[j].rule)
    => (SolutionEq(solutions[i], solutions[j])
          <=> Binding(solutions[i]) = Binding(solutions[j]))

C27_EqualityIsStructural ==
  \A c \in Threads :
    (Done(c) /\ calls[c].result.ok) => StructuralEquality(calls[c].result.solutions)

\* What the stored hash does reflect: the argument of the first dependency.
FirstArgumentEquality(solutions) ==
  \A i, j \in DOMAIN solutions :
    (/\ RuleEq(solutions[i].rule, solutions[j].rule)
     /\ solutions[i].args.args # <<>>)
    => (SolutionEq(solutions[i], solutions[j])
          <=> SolutionEq(solutions[i].args.args[1].solution,
                         solutions[j].args.args[1].solution))

C27_EqualityOfFirstArgument ==
  \A c \in Threads :
    (Done(c) /\ calls[c].result.ok) => FirstArgumentEquality(calls[c].result.solutions)

\* Rule R with one candidate for a and two for b: the two Solutions returned
\* differ in their argument b and compare equal.
C27_Witness ==
  \E c \in Threads :
    /\ SolverOver(Combination(1, 2, FALSE))
    /\ Done(c)
    /\ calls[c].result.ok
    /\ Len(calls[c].result.solutions) = 2
    /\ Binding(calls[c].result.solutions[1]) # Binding(calls[c].result.solutions[2])
    /\ SolutionEq(calls[c].result.solutions[1], calls[c].result.solutions[2])

(***************************************************************************)
(* C28: the execution stack and the reasons recorded belong to one         *)
(* top-level solve.  Under every interleaving of the solve_for calls of    *)
(* the threads on one Solver, the stack of a call holds the steps of its   *)
(* own solve_for calls and nothing else, a CyclicDependency is recorded    *)
(* only for a target on the call's own stack, a step of one call leaves    *)
(* the stack and the reasons of every other call alone, and the error a    *)
(* call fails with holds the reasons recorded under its own root.          *)
(***************************************************************************)
\* Every reason of thread c was recorded with a stack that starts at the
\* root step of c and holds steps of its own frames or of frames it had.
OwnReasons(c) ==
  \A i \in DOMAIN calls[c].errors :
    /\ calls[c].errors[i].stack # <<>>
    /\ calls[c].errors[i].stack[1] = ExecutionStep("__root__", calls[c].target)

OwnCycleOnly(c) ==
  RecordsCyclic(c)
  => \E i \in DOMAIN calls[c].execution_stack :
       TypeInfoEq(calls[c].execution_stack[i].target, Top(calls[c]).target)

OthersUntouched(c) ==
  calls'[c] # calls[c] => \A d \in Threads \ {c} : calls'[d] = calls[d]

C28_StackAndReasonsPerCall ==
  /\ [](\A c \in Threads :
          /\ StackIsFrames(c)
          /\ OwnReasons(c)
          /\ (Done(c) /\ ~calls[c].result.ok) => calls[c].result.errors = calls[c].errors)
  /\ [][\A c \in Threads : OwnCycleOnly(c) /\ OthersUntouched(c)]_vars

\* Both threads are inside the loop over the rules of the same key at once,
\* one of them has recorded a reason, and neither a cycle with the other.
C28_Witness ==
  /\ Running(1) /\ Running(2)
  /\ calls[1].target # calls[2].target
  /\ calls[1].execution_stack # <<>> /\ calls[2].execution_stack # <<>>
  /\ TypeInfoEq(calls[1].execution_stack[1].target, calls[2].execution_stack[1].target)
  /\ calls[1].errors # <<>>
  /\ calls[2].errors = <<>>
  /\ \A i \in DOMAIN calls[1].errors : Len(calls[1].errors[i].stack) > 1

\* Both threads failed, each with reasons under its own root only.
C28_WitnessBothFailed ==
  /\ Done(1) /\ Done(2)
  /\ calls[1].target # calls[2].target
  /\ calls[1].lookups > 0 /\ calls[2].lookups > 0
  /\ calls[1].result.errors # <<>> /\ calls[2].result.errors # <<>>

(***************************************************************************)
(* _Solver::solve_for read as one function: from the registry, the memo    *)
(* and the execution stack to the value returned and the memo left behind. *)
(* It is the recursion the steps above walk through, run without           *)
(* interruption; where a lookup can deliver its rules in more than one     *)
(* order, one order is taken.                                              *)
(***************************************************************************)
Outcome(m, value) == [memo |-> m, value |-> value]

RECURSIVE Resolve(_, _, _, _, _)
RECURSIVE ResolveDependencies(_, _, _, _)
RECURSIVE ResolveRules(_, _, _, _)

\* The loop over the dependencies of a rule: the candidates, or not ok at the
\* first dependency that returns None.
ResolveDependencies(reg, m, stack, deps) ==
  IF deps = <<>> THEN [memo |-> m, ok |-> TRUE, args |-> <<>>]
  ELSE LET first == Resolve(reg, m, stack, Head(deps).name, Head(deps).typing)
       IN  IF ~first.value.some THEN [memo |-> first.memo, ok |-> FALSE, args |-> <<>>]
           ELSE LET rest == ResolveDependencies(reg, first.memo, stack, Tail(deps))
                IN  [memo |-> rest.memo,
                     ok   |-> rest.ok,
                     args |-> IF rest.ok
                              THEN <<SolutionArgCandidate(Head(deps).name, first.value.val)>>
                                     \o rest.args
                              ELSE <<>>]

\* The loop over the rules: the Solutions of each rule, in the order of rules.
ResolveRules(reg, m, stack, rules) ==
  IF rules = <<>> THEN [memo |-> m, solutions |-> <<>>]
  ELSE LET rule == Head(rules)
           this ==
             IF rule.dependencies = <<>>
             THEN [memo |-> m, solutions |-> <<Solution(rule, SolutionArgsCollectionDefault)>>]
             ELSE LET d        == ResolveDependencies(reg, m, stack, rule.dependencies)
                      expanded == permutate_candidates(d.args)
                  IN  [memo      |-> d.memo,
                       solutions |-> IF d.ok /\ expanded.ok
                                     THEN [i \in DOMAIN expanded.val |->
                                             Solution(rule, expanded.val[i])]
                                     ELSE <<>>]
           rest == ResolveRules(reg, this.memo, stack, Tail(rules))
       IN  [memo |-> rest.memo, solutions |-> this.solutions \o rest.solutions]

\* _Solver::solve_for(name, target)
Resolve(reg, m, stack, name, target) ==
  IF read_memo(m, target).some THEN Outcome(m, read_memo(m, target))
  ELSE IF push_stack(stack, name, target) # "pushed" THEN Outcome(m, None)
  ELSE LET found == CHOOSE f \in get(reg, target) : TRUE
       IN  IF ~found.some THEN Outcome(m, None)
           ELSE LET r == ResolveRules(reg, m, Append(stack, ExecutionStep(name, target)),
                                      found.val)
                    cardinality == target.solve_parameter.cardinality
                IN  IF r.solutions = <<>> \/ ExclusiveRejects(cardinality, r.solutions)
                    THEN Outcome(r.memo, None)
                    ELSE Outcome(save_memo(r.memo, target,
                                           ApplyCardinality(cardinality, r.solutions)),
                                 Some(ApplyCardinality(cardinality, r.solutions)))

\* Solver::solve_for(target) on a Solver whose memo is m.
SolveSerially(reg, m, target) == Resolve(reg, m, <<>>, "__root__", target)

RECURSIVE SerialMemos(_, _, _)
\* The memos that sequences of uninterrupted solve_for calls for targets of ts
\* leave behind, starting from the memos of S.
SerialMemos(reg, ts, S) ==
  LET next == S \cup {SolveSerially(reg, m, t).memo : m \in S, t \in ts}
  IN  IF next = S THEN S ELSE SerialMemos(reg, ts, next)

\* The steps above and the function agree: what a solve_for of the one
\* calling thread returned, and the memo it left, are those of the function
\* on one of the memos that uninterrupted calls leave behind.
StepsAgreeWithFunction ==
  (Done(1) /\ ~SolverOver(Hierarchy))
  => \E m \in SerialMemos(solver.val, targets, {{}}) :
       LET o == SolveSerially(solver.val, m, calls[1].target)
       IN  /\ o.memo = memo
           /\ o.value.some = calls[1].result.ok
           /\ o.value.some => o.value.val = calls[1].result.solutions

(***************************************************************************)
(* C29: solve_for calls that run at once on one Solver are serializable:   *)
(* whatever the interleaving, what a call returned is what an              *)
(* uninterrupted call for its target returns on a memo that uninterrupted  *)
(* calls leave behind, the memo all calls have left is such a memo, and no *)
(* Solution returned has a rule applied below an application of itself.    *)
(***************************************************************************)
\* What thread c returned, an uninterrupted solve_for returns on memo m.
ReturnedSerially(c, m) ==
  LET o == SolveSerially(solver.val, m, calls[c].target)
  IN  /\ o.value.some = calls[c].result.ok
      /\ o.value.some => o.value.val = calls[c].result.solutions

C29_Serializable ==
  (solver.some /\ \A c \in Threads : ~Running(c))
  => /\ memo \in SerialMemos(solver.val, targets, {{}})
     /\ \A c \in Threads :
          Done(c)
          => /\ \E m \in SerialMemos(solver.val, targets, {{}}) : ReturnedSerially(c, m)
             /\ calls[c].result.ok
                => \A i \in DOMAIN calls[c].result.solutions :
                     NoNesting(calls[c].result.solutions[i], calls[c].target, {})

\* Thread 2 looked up the rules of "TB" and was overtaken by the whole solve
\* of "TA" on thread 1, which cached "TB" on its way; thread 2 then built
\* its rule B1 over what thread 1 had cached for "TA", and returned three
\* Solutions where an uninterrupted solve returns one or two.
C29_Witness ==
  /\ SolverOver(Mutual)
  /\ Done(1) /\ Done(2)
  /\ calls[1].target = WithCardinality("TA", "Exhaustive")
  /\ calls[2].target = WithCardinality("TB", "Exhaustive")
  /\ Len(calls[1].result.solutions) = 2
  /\ Len(calls[2].result.solutions) = 3
  /\ read_memo(memo, calls[2].target) = Some(calls[2].result.solutions)

(***************************************************************************)
(* C30: memo entries do not depend on the context they were computed in:   *)
(* after any sequence of solve calls, what the memo holds for a key is     *)
(* what solve of that key returns on a fresh Solver over the same          *)
(* registry, with an empty memo.                                           *)
(***************************************************************************)
\* Solver::solve_for(key) on a fresh Solver over the registry of this one.
FreshSolve(key) == SolveSerially(solver.val, {}, key).value

C30_MemoIsContextFree ==
  (solver.some /\ ~SolverOver(Hierarchy))
  => \A e \in memo : FreshSolve(e.key) = Some(e.val)

\* After solve of "TA" the memo holds for "TB" the one Solution of B2: it was
\* computed below "TA", where B1 was cut as a cycle.  A fresh solve of "TB"
\* returns two.
C30_Witness ==
  /\ SolverOver(Mutual)
  /\ Done(1)
  /\ calls[1].target = WithCardinality("TA", "Exhaustive")
  /\ \E e \in memo :
       /\ e.key = WithCardinality("TB", "Exhaustive")
       /\ Len(e.val) = 1
       /\ FreshSolve(e.key).some
       /\ Len(FreshSolve(e.key).val) = 2

\* Over the longest chain, solve of "K1" was answered through what a solve of
\* "K2" had cached; a fresh solve of "K1" is cut by the depth guard.
C30_WitnessDepth ==
  /\ SolverOver(Chain(MaxChain))
  /\ Done(1)
  /\ \E e \in memo : e.key = Plain("K1") /\ ~FreshSolve(e.key).some

(***************************************************************************)
(* C31: failure is stable for a fixed registry: if solve(T) failed on a    *)
(* Solver, every later solve(T) on that Solver fails too, whatever was     *)
(* solved and memoized in between; in particular a chain cut by the depth  *)
(* guard does not become solvable because its inner targets were memoized. *)
(***************************************************************************)
\* The client kept a failure of the target that the call just returned was for.
FailedEarlier(c) ==
  /\ Done(c)
  /\ earlier.some
  /\ earlier.val.target = calls[c].target
  /\ ~earlier.val.result.ok

C31_FailureIsStable == FailedEarlier(1) => ~calls[1].result.ok

\* Over the chain two longer than the depth limit, solve of "K1" failed at the
\* depth guard; after a solve of "K2" cached "K2", solve of "K1" succeeded
\* with one lookup, its dependency answered by the memo.
C31_Witness ==
  /\ SolverOver(Chain(DepthLimit + 2))
  /\ FailedEarlier(1)
  /\ calls[1].target = Plain("K1")
  /\ ~HasReason(earlier.val.result.errors, "CyclicDependency")
  /\ calls[1].result.ok
  /\ calls[1].lookups = 1
  /\ read_memo(memo, Plain("K2")).some

\* solve of "T" as Exclusive was rejected for two Solutions; after a solve of
\* "T" under another cardinality cached them, the Exclusive solve returned
\* what the memo held.
C31_WitnessExclusive ==
  /\ FailedEarlier(1)
  /\ calls[1].target = WithCardinality("T", "Exclusive")
  /\ HasReason(earlier.val.result.errors, "NotExclusive")
  /\ calls[1].result.ok
  /\ calls[1].lookups = 0

(***************************************************************************)
(* C32: results conform to the cardinality asked for: after any sequence   *)
(* of solve calls on one Solver, a solve requested as Single or Exclusive  *)
(* returns at most one Solution, and no Solution returned binds to a       *)
(* dependency declared Single or Exclusive a sub-Solution taken from more  *)
(* than one alternative.                                                   *)
(***************************************************************************)
SingleOrExclusive(t) == t.solve_parameter.cardinality \in {"Single", "Exclusive"}

\* Among solutions, the applications of one rule agree on what they bind to
\* each dependency the rule declares Single or Exclusive.
BindsOneAlternative(solutions) ==
  \A i, j \in DOMAIN solutions :
    solutions[i].rule = solutions[j].rule
    => \A k \in DOMAIN solutions[i].args.args :
         LET arg == solutions[i].args.args[k]
         IN  SingleOrExclusive(DependencyKey(solutions[i].rule, arg.name))
             => solutions[j].args.args[k] = arg

C32_CardinalityConformance ==
  (Done(1) /\ calls[1].result.ok)
  => /\ SingleOrExclusive(calls[1].target) => Len(calls[1].result.solutions) <= 1
     /\ BindsOneAlternative(calls[1].result.solutions)

\* After an Exhaustive solve cached the rules of "T", a solve of "T" as
\* Single or Exclusive returned more than one Solution from the memo.
C32_Witness ==
  /\ Done(1)
  /\ calls[1].result.ok
  /\ SingleOrExclusive(calls[1].target)
  /\ Len(calls[1].result.solutions) > 1
  /\ calls[1].lookups = 0

\* After "TA" and "TB" were solved for every Solution, rule R, which declares
\* "TA" Single and "TB" Exclusive, was returned over every pair of them.
C32_WitnessDependency ==
  /\ SolverOver(Restricted)
  /\ Done(1)
  /\ calls[1].target = WithCardinality("T", "Exhaustive")
  /\ Len(calls[1].result.solutions) = 4
  /\ ~BindsOneAlternative(calls[1].result.solutions)

(***************************************************************************)
(* C33: results conform to the specificity asked for: after any sequence   *)
(* of solve calls on one Solver, every Solution returned for a key, at the *)
(* top level or bound to a dependency declared with that key, uses a rule  *)
(* that the registry lookup of the key under the key's own specificity     *)
(* returns; an Exact request is never answered with a rule registered      *)
(* under a subclass or a superclass.                                       *)
(***************************************************************************)
RECURSIVE RulesConform(_, _, _)
\* The rule of solution is among those reg delivers for key, and so on for
\* each argument and the type of the dependency it binds.
RulesConform(reg, solution, key) ==
  /\ \E found \in get(reg, key) : found.some /\ solution.rule \in Range(found.val)
  /\ \A k \in DOMAIN solution.args.args :
       RulesConform(reg, solution.args.args[k].solution,
                    DependencyKey(solution.rule, solution.args.args[k].name))

C33_SpecificityConformance ==
  (Done(1) /\ calls[1].result.ok)
  => \A i \in DOMAIN calls[1].result.solutions :
       RulesConform(solver.val, calls[1].result.solutions[i], calls[1].target)

\* After a solve of Base that allowed subclasses cached the rule registered
\* for Leaf, an Exact solve of Base returned that rule from the memo.
C33_Witness ==
  /\ SolverOver(Hierarchy)
  /\ Done(1)
  /\ calls[1].result.ok
  /\ calls[1].target.solve_parameter.specificity = "Exact"
  /\ calls[1].lookups = 0
  /\ \E i \in DOMAIN calls[1].result.solutions :
       calls[1].result.solutions[i].rule.output_type.type_hash = "Leaf"

(***************************************************************************)
(* C34: every Solution returned by solve is well-formed at every level of  *)
(* its tree: the names of its args are exactly the dependency names of its *)
(* rule, each once, in ascending name order, and a rule without            *)
(* dependencies appears with an empty args collection.                     *)
(***************************************************************************)
\* The names of a sequence of named items, in its order.
NamesOf(items) == [k \in DOMAIN items |-> items[k].name]

\* Each name comes before the next in the order of names, and differs from it.
StrictlyAscending(names) ==
  \A k \in 1..(Len(names) - 1) :
    NameLe(names[k], names[k + 1]) /\ names[k] # names[k + 1]

RECURSIVE WellFormed(_)
WellFormed(solution) ==
  /\ NamesOf(solution.args.args) = NamesOf(solution.rule.dependencies)
  /\ StrictlyAscending(NamesOf(solution.args.args))
  /\ solution.rule.dependencies = <<>> => solution.args = SolutionArgsCollectionDefault
  /\ \A k \in DOMAIN solution.args.args : WellFormed(solution.args.args[k].solution)

C34_SolutionsWellFormed ==
  /\ \A c \in Threads :
       (Done(c) /\ calls[c].result.ok)
       => \A i \in DOMAIN calls[c].result.solutions : WellFormed(calls[c].result.solutions[i])
  /\ \A e \in memo : \A i \in DOMAIN e.val : WellFormed(e.val[i])

\* A solve returned a Solution of rule R, whose three dependencies were
\* declared in the order b, a, c, with three args, and below them Solutions
\* of rules without dependencies.
C34_Witness ==
  /\ SolverOver(Combination(2, 2, TRUE))
  /\ Done(1)
  /\ calls[1].result.ok
  /\ \E i \in DOMAIN calls[1].result.solutions :
       LET s == calls[1].result.solutions[i]
       IN  /\ s.rule.canonical_name = "R"
           /\ NamesOf(s.args.args) = <<"a", "b", "c">>
           /\ \A k \in DOMAIN s.args.args : s.args.args[k].solution.args.args = <<>>

(***************************************************************************)
(* C35: whenever a top-level solve fails, the aggregated error is not      *)
(* empty: at least one (stack, reason) pair was recorded, and the last     *)
(* pair recorded is a NoSolution or NotExclusive reason whose stack is     *)
(* exactly [(__root__, target)]; the silent depth guard is never the sole  *)
(* cause of a failure at the root.                                         *)
(***************************************************************************)
\* The failure thread c returned ends with a reason recorded at the root.
EndsAtRoot(c) ==
  LET errors == calls[c].result.errors
  IN  /\ errors # <<>>
      /\ Last(errors).reason.kind \in {"NoSolution", "NotExclusive"}
      /\ Last(errors).stack = <<ExecutionStep("__root__", calls[c].target)>>

C35_RootFailureHasReason ==
  \A c \in Threads : (Done(c) /\ ~calls[c].result.ok) => EndsAtRoot(c)

\* Over the chain two longer than the depth limit the solve of "K1" failed:
\* the innermost resolve was cut by the depth guard without a reason, and
\* each of the resolves above it recorded NoSolution, the root last.
C35_Witness ==
  /\ SolverOver(Chain(DepthLimit + 2))
  /\ Done(1)
  /\ calls[1].target = Plain("K1")
  /\ ~calls[1].result.ok
  /\ Len(calls[1].result.errors) = DepthLimit + 1
  /\ \A i \in DOMAIN calls[1].result.errors :
       /\ calls[1].result.errors[i].reason.kind = "NoSolution"
       /\ Len(calls[1].result.errors[i].stack) = DepthLimit + 2 - i
  /\ EndsAtRoot(1)

\* A solve as Exclusive of a type two rules produce failed with NotExclusive
\* as its last reason.
C35_WitnessNotExclusive ==
  /\ Done(1)
  /\ ~calls[1].result.ok
  /\ Last(calls[1].result.errors).reason.kind = "NotExclusive"
  /\ EndsAtRoot(1)

(***************************************************************************)
(* Registration after the Solver was constructed                           *)
(***************************************************************************)
\* The rules a client may register late: for the type of each request, a
\* rule without dependencies that outranks every rule registered before.
LateRules == {Leaf("Late", t.type_hash, MaxSame + MaxCands) : t \in targets}

\* rule is held by the registry.
Registered(reg, rule) ==
  /\ rule.output_type.type_hash \in DOMAIN reg.rules
  /\ rule \in Range(reg.rules[rule.output_type.type_hash])

\* RuleRegistry::add_rule, called between two solves of a Solver that exists.
AddRuleLater(rule) ==
  /\ solver.some
  /\ \A c \in Threads : ~Running(c)
  /\ ~Registered(registry, rule)
  /\ registry' = add_rule(registry, rule)
  /\ UNCHANGED <<pending, targets, solver, memo, calls, earlier, lookup>>

InitSnapshot ==
  /\ \E s \in SharedScenarios : pending = s.rules /\ targets = s.targets
  /\ registry = RuleRegistryDefault
  /\ solver = None
  /\ memo = {}
  /\ calls = [c \in Threads |-> IdleCall]
  /\ earlier = None
  /\ lookup = None

NextSnapshot ==
  \/ AddRule
  \/ NewSolver
  \/ \E r \in LateRules : AddRuleLater(r)
  \/ \E t \in targets : SolveFor(1, t)
  \/ Step(1)

SpecSnapshot == InitSnapshot /\ [][NextSnapshot]_vars

(***************************************************************************)
(* C36: a Solver resolves against the registry as it was when the Solver   *)
(* was constructed: rules registered afterwards change neither what a      *)
(* later solve on that Solver returns nor its memo.                        *)
(***************************************************************************)
\* What the last solve returned and the memo it left are those of solve_for
\* over the rules registered before the Solver was constructed.
SnapshotAnswers ==
  Done(1)
  => \E s \in SharedScenarios :
       LET reg == RuleRegistryCloneRef(RegistryOf(s.rules))
       IN  \E m \in SerialMemos(reg, targets, {{}}) :
             LET o == SolveSerially(reg, m, calls[1].target)
             IN  /\ o.memo = memo
                 /\ o.value.some = calls[1].result.ok
                 /\ o.value.some => o.value.val = calls[1].result.solutions

\* A registration leaves the Solver, its memo and what it returned alone.
RegistrationIsUnseen ==
  (solver.some /\ registry' # registry)
  => /\ solver' = solver
     /\ memo' = memo
     /\ calls' = calls

C36_SolverKeepsSnapshot == []SnapshotAnswers /\ [][RegistrationIsUnseen]_vars

\* A rule for the type requested was registered after the Solver was
\* constructed; the solve that began afterwards looked the type up and was
\* not given that rule.
C36_Witness ==
  /\ Running(1)
  /\ \E r \in LateRules :
       /\ Registered(registry, r)
       /\ ~Registered(solver.val, r)
       /\ r.output_type.type_hash = calls[1].target.type_hash
       /\ Len(calls[1].frames) = 1
       /\ Top(calls[1]).pc = "loop"
       /\ r \notin Range(Top(calls[1]).rules)

\* Such a solve returned, and the memo holds no Solution of a late rule.
C36_WitnessDone ==
  /\ Done(1)
  /\ calls[1].lookups > 0
  /\ \A r \in LateRules : Registered(registry, r)
  /\ memo # {}
  /\ \A e \in memo : \A i \in DOMAIN e.val : e.val[i].rule \notin LateRules

(***************************************************************************)
(* C37: attribute equality is content equality: two MetadataSets that hold *)
(* the same value for the same tag-types are equal, and the TypeInfos      *)
(* built from them share one memo entry, whatever the order in which the   *)
(* values were given and whatever values a later value of the same         *)
(* tag-type replaced.                                                      *)
(***************************************************************************)
\* a and b are requests of one type whose attributes hold the same values for
\* the same tag-types, under the same qualifiers.
SameContent(a, b) ==
  /\ a.type_hash = b.type_hash
  /\ a.attributes.map = b.attributes.map
  /\ QualifiersEq(a.qualifiers, b.qualifiers)

C37_EqualityIsContentEquality ==
  /\ \A a, b \in targets :
       SameContent(a, b) => MetadataSetEq(a.attributes, b.attributes) /\ TypeInfoEq(a, b)
  /\ \A d, e \in memo : SameContent(d.key, e.key) => d = e

\* What does hold: sets built from the same values in the same order, replaced
\* values included, are equal and share their memo entry.
C37_EqualityOfValuesGiven ==
  /\ \A a, b \in targets :
       (a.type_hash = b.type_hash /\ QualifiersEq(a.qualifiers, b.qualifiers))
       => (TypeInfoEq(a, b) <=> a.attributes.hash = b.attributes.hash)
  /\ \A d, e \in memo : TypeInfoEq(d.key, e.key) => d = e

\* The same two attribute values were requested in one order and then in the
\* other: the second solve asked the registry again, and the memo holds one
\* entry for each order.
C37_Witness ==
  /\ SolverOver(Annotated)
  /\ Done(1)
  /\ earlier.some
  /\ earlier.val.result.ok
  /\ SameContent(earlier.val.target, calls[1].target)
  /\ Len(earlier.val.target.attributes.hash) = Len(calls[1].target.attributes.hash)
  /\ ~MetadataSetEq(earlier.val.target.attributes, calls[1].target.attributes)
  /\ calls[1].result.ok
  /\ calls[1].lookups = 1
  /\ \E d, e \in memo : d # e /\ d.key = earlier.val.target /\ e.key = calls[1].target

\* Likewise for a request that gave a value its later value replaced.
C37_WitnessReplaced ==
  /\ SolverOver(Annotated)
  /\ Done(1)
  /\ earlier.some
  /\ SameContent(earlier.val.target, calls[1].target)
  /\ Len(earlier.val.target.attributes.hash) < Len(calls[1].target.attributes.hash)
  /\ calls[1].lookups = 1
  /\ Cardinality(memo) >= 2

(***************************************************************************)
(* C38: add_rules registers its elements one at a time, without rollback:  *)
(* when element k of the input is rejected, the rules before k stay        *)
(* registered, in the collections per identity and in the type index, and  *)
(* the elements after k are not registered.                                *)
(***************************************************************************)
\* The elements of rules before the first that is no Rule.
AcceptedPrefix(rules) ==
  LET bad == {i \in DOMAIN rules : ~IsRule(rules[i])}
  IN  IF bad = {} THEN rules
      ELSE SubSeq(rules, 1, (CHOOSE i \in bad : \A j \in bad : i <= j) - 1)

\* add_rules(rules) is under way with n elements registered, or it returned
\* and the registry holds the elements before the first one rejected.
RegisteredSoFar(rules) ==
  \/ /\ pending # <<>>
     /\ \E n \in 0..Len(rules) :
          /\ pending = SubSeq(rules, n + 1, Len(rules))
          /\ \A i \in 1..n : IsRule(rules[i])
          /\ registry = RegistryOf(SubSeq(rules, 1, n))
  \/ /\ pending = <<>>
     /\ registry = RegistryOf(AcceptedPrefix(rules))

C38_NoRollback == \E s \in Scenarios : targets = s.targets /\ RegisteredSoFar(s.rules)

\* add_rules returned at its second element: the rule for Leaf before it is
\* registered and indexed under Leaf and under its ancestors, the rule for
\* Base after it is in no collection and Base has no entry of its own in the
\* index; a solve of Base with its subclasses then returned the rule for Leaf.
C38_Witness ==
  /\ targets = RequestsOfInterrupted
  /\ pending = <<>>
  /\ DOMAIN registry.rules = {"Leaf"}
  /\ Range(registry.rules["Leaf"]) = {Interrupted[1]}
  /\ get_subclasses(registry.types, "Base") = Some({"Leaf"})
  /\ get_superclasses(registry.types, "Leaf").some
  /\ ~get_superclasses(registry.types, "Base").some
  /\ Done(1)
  /\ calls[1].result.ok
  /\ Len(calls[1].result.solutions) = 1
  /\ calls[1].result.solutions[1].rule = Interrupted[1]
====
